---- MODULE Spec2Model ----
(***************************************************************************)
(* A model of telemetry-peak-analyzer: the table model, the statistics     *)
(* engine of TwoIndexTwoDimensionAnalyzer (local and global statistics,    *)
(* the peak predicate, the baseline refresh), the persistence of the       *)
(* baseline (save_to_json / get_global_tables_from_file), the JSON backend *)
(* (stats, group_by) and run().                                            *)
(*                                                                         *)
(* Numbers.  Python ints are TLA+ integers.  A value that Python holds as  *)
(* a float or a Fraction (a mean, a ratio of counts) is held exactly, as a *)
(* rational [num, den] in lowest terms with den > 0.  A standard deviation *)
(* is held by its square (the sample variance), also a rational; the one   *)
(* place the code reads it, max > mean + std, is decided on the squares.   *)
(* round(x, 2) is held in hundredths.                                      *)
(*                                                                         *)
(* Time.  A datetime is [sec, usec]: whole seconds since 1970-01-01 and    *)
(* the microseconds within the second.                                     *)
(***************************************************************************)
EXTENDS Integers, Sequences, FiniteSets, TLC

(***************************************************************************)
(* Bounds of the model                                                     *)
(***************************************************************************)
\* window bounds are the midnights of MaxDay + 1 consecutive days
MaxDay == 2
\* at most MaxRuns refreshes of a baseline, at most MaxRuns runs of run()
MaxRuns == 2

(***************************************************************************)
(* Arithmetic                                                              *)
(***************************************************************************)
Abs(x) == IF x < 0 THEN -x ELSE x

Max2(a, b) == IF b > a THEN b ELSE a

RECURSIVE Gcd(_, _)
Gcd(a, b) == IF b = 0 THEN a ELSE Gcd(b, a % b)

\* the rational n/d (d # 0) in lowest terms
Rat(n, d) ==
    LET s == IF d < 0 THEN -1 ELSE 1
        g == Gcd(Abs(n), Abs(d))
    IN  [num |-> (s * n) \div g, den |-> (s * d) \div g]

IntRat(k) == [num |-> k, den |-> 1]

RatLt(a, b) == a.num * b.den < b.num * a.den

RatAdd(a, b) == Rat(a.num * b.den + b.num * a.den, a.den * b.den)

RatSub(a, b) == Rat(a.num * b.den - b.num * a.den, a.den * b.den)

RatMul(a, b) == Rat(a.num * b.num, a.den * b.den)

\* Python's max(a, b): b when b > a, else a
RatMax(a, b) == IF RatLt(a, b) THEN b ELSE a

\* Python's int(round(n / d)) for d > 0: the nearest integer, a tie going to
\* the even one
RoundDiv(n, d) ==
    LET q == n \div d
        r == n % d
    IN  IF 2 * r < d THEN q
        ELSE IF 2 * r > d THEN q + 1
        ELSE IF q % 2 = 0 THEN q ELSE q + 1

\* Python's int(round(x)) of a rational x
RoundRat(x) == RoundDiv(x.num, x.den)

(***************************************************************************)
(* Finite maps (Python dicts) and their folds                              *)
(***************************************************************************)
EmptyMap == <<>>

RECURSIVE SumOver(_, _)
SumOver(f, S) ==
    IF S = {} THEN 0
    ELSE LET x == CHOOSE y \in S : TRUE
         IN  f[x] + SumOver(f, S \ {x})

\* sum(d.values())
SumValues(f) == SumOver(f, DOMAIN f)

\* max(d.values()) of a non-empty dict
MaxValues(f) == CHOOSE m \in {f[x] : x \in DOMAIN f} : \A y \in DOMAIN f : f[y] <= m

RECURSIVE SumSqOver(_, _)
SumSqOver(f, S) ==
    IF S = {} THEN 0
    ELSE LET x == CHOOSE y \in S : TRUE
         IN  f[x] * f[x] + SumSqOver(f, S \ {x})

(***************************************************************************)
(* Dates                                                                   *)
(***************************************************************************)
\* datetime.datetime.combine(day, datetime.datetime.min.time())
Midnight(d) == [sec |-> d * 86400, usec |-> 0]

\* a < b on datetimes
DtLt(a, b) == a.sec < b.sec \/ (a.sec = b.sec /\ a.usec < b.usec)


(***************************************************************************)
(* FileTypePeakAnalyzer: class constants                                   *)
(***************************************************************************)
LOCAL_MIN_COUNT == 50

\* 0.8
PEAK_GLOBAL_COUNT_WEIGHT == Rat(4, 5)

\* 0.5
PEAK_MIN_SAMP_SUB_RATIO == Rat(1, 2)

CROSS_DIMENSIONS == <<"source.user_id", "source.origin">>

DIMENSIONS_METADATA ==
    [d \in {"task.severity"} |->
        [values |-> <<"malicious", "benign">>,
         threshold |-> [v \in {"malicious", "benign"} |->
                           IF v = "malicious" THEN 90 ELSE 500]]]

\* _INDEX
INDEX == <<"utc_timestamp", "file.sha1">>

\* _DIMENSIONS
DIMENSIONS == <<"task.severity", "file.llfile_type">>

Range(s) == {s[i] : i \in DOMAIN s}

\* terms = self._dimensions + self.CROSS_DIMENSIONS + [self._index[1]]
Terms == Range(DIMENSIONS) \cup Range(CROSS_DIMENSIONS) \cup {INDEX[2]}

\* Optional[int]: None is <<>>, the integer v is <<v>>
None == <<>>

Some(v) == <<v>>

(***************************************************************************)
(* Table model (models/__init__.py)                                        *)
(***************************************************************************)
GlobalTable(start, end, wc, sub_avg, sub_max, samp_avg, samp_max, ss_avg, ss_max, thr) ==
    [start_ts |-> start, end_ts |-> end, window_count |-> wc,
     sub_count_avg |-> sub_avg, sub_count_max |-> sub_max,
     samp_count_avg |-> samp_avg, samp_count_max |-> samp_max,
     samp_sub_count_avg |-> ss_avg, samp_sub_count_max |-> ss_max,
     threshold_suggested |-> thr]

LocalTableStats(sub, samp, ss_max, ss_mean, ss_std, ratio, cross) ==
    [sub_count |-> sub, samp_count |-> samp, samp_sub_count_max |-> ss_max,
     samp_sub_count_mean |-> ss_mean, samp_sub_count_std |-> ss_std,
     samp_sub_ratio |-> ratio, cross_stats |-> cross]

GlobalTableStats(ss_max, thr) == [samp_sub_count_max |-> ss_max, threshold |-> thr]

TelemetryPeak(ls, gs) ==
    [sub_count |-> ls.sub_count, samp_count |-> ls.samp_count,
     samp_sub_count_max |-> ls.samp_sub_count_max,
     samp_sub_count_mean |-> ls.samp_sub_count_mean,
     samp_sub_count_std |-> ls.samp_sub_count_std,
     samp_sub_ratio |-> ls.samp_sub_ratio,
     global_samp_sub_count_max |-> gs.samp_sub_count_max,
     global_threshold_suggested |-> gs.threshold]

(***************************************************************************)
(* Local statistics                                                        *)
(***************************************************************************)
\* statistics.mean(values), 0.0 when there is none
Mean(m) ==
    IF DOMAIN m = {} THEN IntRat(0)
    ELSE Rat(SumValues(m), Cardinality(DOMAIN m))

\* Variance taking the deviation of a single value from 0
Variance_of_single(m) ==
    LET n == Cardinality(DOMAIN m)
        s == SumValues(m)
    IN  IF n = 0 THEN IntRat(0)
        ELSE IF n = 1 THEN IntRat(s * s)
        ELSE Rat(n * SumSqOver(m, DOMAIN m) - s * s, n * (n - 1))

\* the square of statistics.stdev(values): the sample variance, 0 when there
\* are fewer than two values
Variance(m) ==
    LET n == Cardinality(DOMAIN m)
        s == SumValues(m)
    IN  IF n < 2 THEN IntRat(0)
        ELSE Rat(n * SumSqOver(m, DOMAIN m) - s * s, n * (n - 1))

\* a standard deviation, held by its square
StdOf(variance) == [sq |-> variance]

\* round(a / b, 2) for b > 0, as a rational with denominator dividing 100
Round2(a, b) == Rat(RoundDiv(100 * a, b), 100)

\* x > mean + std, for an integer x
GtMeanPlusStd(x, mean, std) ==
    LET d == RatSub(IntRat(x), mean)
    IN  RatLt(IntRat(0), d) /\ RatLt(std.sq, RatMul(d, d))

\* local_table_stats computing the ratio from LOCAL_MIN_COUNT submissions on
local_table_stats_ratio_at_floor(local_table) ==
    LET samp_sub_count == local_table[INDEX[2]]
        sub_count == SumValues(samp_sub_count)
        samp_count == Cardinality(DOMAIN samp_sub_count)
        samp_sub_count_mean == Mean(samp_sub_count)
        samp_sub_count_max ==
            IF DOMAIN samp_sub_count = {} THEN 0 ELSE MaxValues(samp_sub_count)
        samp_sub_count_std == StdOf(Variance(samp_sub_count))
        samp_sub_ratio ==
            IF sub_count >= LOCAL_MIN_COUNT
            THEN Round2(samp_sub_count_max, sub_count)
            ELSE IntRat(0)
    IN  LocalTableStats(sub_count, samp_count, samp_sub_count_max,
                        samp_sub_count_mean, samp_sub_count_std, samp_sub_ratio,
                        [x \in Range(CROSS_DIMENSIONS) |-> local_table[x]])

\* local_table_stats taking the mean over the submissions, not over the samples
local_table_stats_mean_over_subs(local_table) ==
    LET samp_sub_count == local_table[INDEX[2]]
        sub_count == SumValues(samp_sub_count)
        samp_count == Cardinality(DOMAIN samp_sub_count)
        samp_sub_count_mean ==
            IF sub_count = 0 THEN IntRat(0)
            ELSE Rat(SumSqOver(samp_sub_count, DOMAIN samp_sub_count), sub_count)
        samp_sub_count_max ==
            IF DOMAIN samp_sub_count = {} THEN 0 ELSE MaxValues(samp_sub_count)
        samp_sub_count_std == StdOf(Variance(samp_sub_count))
        samp_sub_ratio ==
            IF sub_count > LOCAL_MIN_COUNT
            THEN Round2(samp_sub_count_max, sub_count)
            ELSE IntRat(0)
    IN  LocalTableStats(sub_count, samp_count, samp_sub_count_max,
                        samp_sub_count_mean, samp_sub_count_std, samp_sub_ratio,
                        [x \in Range(CROSS_DIMENSIONS) |-> local_table[x]])

\* local_table_stats counting the submissions from the first cross dimension
local_table_stats_sub_from_cross(local_table) ==
    LET samp_sub_count == local_table[INDEX[2]]
        sub_count == SumValues(local_table[CROSS_DIMENSIONS[1]])
        samp_count == Cardinality(DOMAIN samp_sub_count)
        samp_sub_count_mean == Mean(samp_sub_count)
        samp_sub_count_max ==
            IF DOMAIN samp_sub_count = {} THEN 0 ELSE MaxValues(samp_sub_count)
        samp_sub_count_std == StdOf(Variance(samp_sub_count))
        samp_sub_ratio ==
            IF sub_count > LOCAL_MIN_COUNT
            THEN Round2(samp_sub_count_max, sub_count)
            ELSE IntRat(0)
    IN  LocalTableStats(sub_count, samp_count, samp_sub_count_max,
                        samp_sub_count_mean, samp_sub_count_std, samp_sub_ratio,
                        [x \in Range(CROSS_DIMENSIONS) |-> local_table[x]])

local_table_stats(local_table) ==
    LET samp_sub_count == local_table[INDEX[2]]
        sub_count == SumValues(samp_sub_count)
        samp_count == Cardinality(DOMAIN samp_sub_count)
        samp_sub_count_mean == Mean(samp_sub_count)
        samp_sub_count_max ==
            IF DOMAIN samp_sub_count = {} THEN 0 ELSE MaxValues(samp_sub_count)
        samp_sub_count_std == StdOf(Variance(samp_sub_count))
        samp_sub_ratio ==
            IF sub_count > LOCAL_MIN_COUNT
            THEN Round2(samp_sub_count_max, sub_count)
            ELSE IntRat(0)
    IN  LocalTableStats(sub_count, samp_count, samp_sub_count_max,
                        samp_sub_count_mean, samp_sub_count_std, samp_sub_ratio,
                        [x \in Range(CROSS_DIMENSIONS) |-> local_table[x]])

get_local_tables_stats(local_tables) ==
    [p \in DOMAIN local_tables |-> local_table_stats(local_tables[p])]

(***************************************************************************)
(* Global statistics                                                       *)
(***************************************************************************)
\* threshold or global_table.threshold_suggested
effective_threshold(threshold, global_table) ==
    IF threshold = None \/ threshold = Some(0)
    THEN global_table.threshold_suggested
    ELSE threshold[1]

get_global_tables_stats(global_tables, threshold) ==
    [p \in DOMAIN global_tables |->
        GlobalTableStats(global_tables[p].samp_sub_count_max,
                         effective_threshold(threshold, global_tables[p]))]

(***************************************************************************)
(* Peak predicate                                                          *)
(***************************************************************************)
is_susp_overall_sub_samp_r(ls, gs) ==
    RatLt(RatMul(PEAK_GLOBAL_COUNT_WEIGHT, gs.samp_sub_count_max),
          ls.samp_sub_count_mean)

is_dominant_samp_sub(ls) == RatLt(PEAK_MIN_SAMP_SUB_RATIO, ls.samp_sub_ratio)

is_susp_samp_sub_var(ls) ==
    GtMeanPlusStd(ls.samp_sub_count_max, ls.samp_sub_count_mean, ls.samp_sub_count_std)

\* is_peak without its volume gate
is_peak_ungated(ls, gs) ==
    \/ is_susp_overall_sub_samp_r(ls, gs)
    \/ is_dominant_samp_sub(ls)
    \/ is_susp_samp_sub_var(ls)

\* is_peak judging a window by its own distribution only
is_peak_without_overall(ls, gs) ==
    IF ls.sub_count < gs.threshold THEN FALSE
    ELSE \/ is_dominant_samp_sub(ls)
         \/ is_susp_samp_sub_var(ls)

is_peak(ls, gs) ==
    IF ls.sub_count < gs.threshold THEN FALSE
    ELSE \/ is_susp_overall_sub_samp_r(ls, gs)
         \/ is_dominant_samp_sub(ls)
         \/ is_susp_samp_sub_var(ls)

\* get_peaks comparing a pair without a baseline entry with an all-zero entry
get_peaks_zero_default(global_tables, local_tables, threshold) ==
    LET local_tables_stats == get_local_tables_stats(local_tables)
        global_tables_stats == get_global_tables_stats(global_tables, threshold)
        stats_of(q) == IF q \in DOMAIN global_tables_stats THEN global_tables_stats[q]
                       ELSE GlobalTableStats(IntRat(0), 0)
    IN  [p \in {q \in DOMAIN local_tables_stats :
                    is_peak(local_tables_stats[q], stats_of(q))} |->
            TelemetryPeak(local_tables_stats[p], stats_of(p))]

get_peaks(global_tables, local_tables, threshold) ==
    LET local_tables_stats == get_local_tables_stats(local_tables)
        global_tables_stats == get_global_tables_stats(global_tables, threshold)
        both == DOMAIN local_tables_stats \cap DOMAIN global_tables_stats
    IN  [p \in {q \in both : is_peak(local_tables_stats[q], global_tables_stats[q])} |->
            TelemetryPeak(local_tables_stats[p], global_tables_stats[p])]

(***************************************************************************)
(* Baseline refresh                                                        *)
(***************************************************************************)
get_dimension_threshold(dimension, value) ==
    IF /\ dimension \in DOMAIN DIMENSIONS_METADATA
       /\ value \in DOMAIN DIMENSIONS_METADATA[dimension].threshold
    THEN DIMENSIONS_METADATA[dimension].threshold[value]
    ELSE 0

\* int(round(sub_count / samp_count)), 0 on ZeroDivisionError
samp_sub_count_of(sub_count, samp_count) ==
    IF samp_count = 0 THEN 0 ELSE RoundDiv(sub_count, samp_count)

\* running_avg as the plain mean of the old average and the new value
running_avg_unweighted(avg, window_count, value) == RoundDiv(avg + value, 2)

\* int(round((avg * window_count + value) / (window_count + 1)))
running_avg(avg, window_count, value) ==
    RoundDiv(avg * window_count + value, window_count + 1)

\* update_global_table taking the new average as the suggested threshold
update_global_table_thr_reset(global_table, local_table, end_ts) ==
    LET window_count == global_table.window_count + 1
        sub_count == SumValues(local_table[INDEX[2]])
        samp_count == Cardinality(DOMAIN local_table[INDEX[2]])
        samp_sub_count == samp_sub_count_of(sub_count, samp_count)
        sub_count_avg ==
            running_avg(global_table.sub_count_avg, global_table.window_count, sub_count)
        samp_count_avg ==
            running_avg(global_table.samp_count_avg, global_table.window_count, samp_count)
        samp_sub_count_avg ==
            running_avg(global_table.samp_sub_count_avg, global_table.window_count,
                        samp_sub_count)
    IN  GlobalTable(global_table.start_ts, end_ts, window_count,
                    sub_count_avg, Max2(global_table.sub_count_max, sub_count),
                    samp_count_avg, Max2(global_table.samp_count_max, samp_count),
                    samp_sub_count_avg,
                    RatMax(global_table.samp_sub_count_max, IntRat(samp_sub_count)),
                    sub_count_avg)

\* update_global_table leaving the entry's end_ts as it was
update_global_table_keep_end(global_table, local_table, end_ts) ==
    LET window_count == global_table.window_count + 1
        sub_count == SumValues(local_table[INDEX[2]])
        samp_count == Cardinality(DOMAIN local_table[INDEX[2]])
        samp_sub_count == samp_sub_count_of(sub_count, samp_count)
        sub_count_avg ==
            running_avg(global_table.sub_count_avg, global_table.window_count, sub_count)
        samp_count_avg ==
            running_avg(global_table.samp_count_avg, global_table.window_count, samp_count)
        samp_sub_count_avg ==
            running_avg(global_table.samp_sub_count_avg, global_table.window_count,
                        samp_sub_count)
    IN  GlobalTable(global_table.start_ts, global_table.end_ts, window_count,
                    sub_count_avg, Max2(global_table.sub_count_max, sub_count),
                    samp_count_avg, Max2(global_table.samp_count_max, samp_count),
                    samp_sub_count_avg,
                    RatMax(global_table.samp_sub_count_max, IntRat(samp_sub_count)),
                    Max2(global_table.threshold_suggested, sub_count_avg))

\* update_global_table taking the maxima from the window alone
update_global_table_window_max(global_table, local_table, end_ts) ==
    LET window_count == global_table.window_count + 1
        sub_count == SumValues(local_table[INDEX[2]])
        samp_count == Cardinality(DOMAIN local_table[INDEX[2]])
        samp_sub_count == samp_sub_count_of(sub_count, samp_count)
        sub_count_avg ==
            running_avg(global_table.sub_count_avg, global_table.window_count, sub_count)
        samp_count_avg ==
            running_avg(global_table.samp_count_avg, global_table.window_count, samp_count)
        samp_sub_count_avg ==
            running_avg(global_table.samp_sub_count_avg, global_table.window_count,
                        samp_sub_count)
    IN  GlobalTable(global_table.start_ts, end_ts, window_count,
                    sub_count_avg, sub_count,
                    samp_count_avg, samp_count,
                    samp_sub_count_avg,
                    IntRat(samp_sub_count),
                    Max2(global_table.threshold_suggested, sub_count_avg))

update_global_table(global_table, local_table, end_ts) ==
    LET window_count == global_table.window_count + 1
        sub_count == SumValues(local_table[INDEX[2]])
        samp_count == Cardinality(DOMAIN local_table[INDEX[2]])
        samp_sub_count == samp_sub_count_of(sub_count, samp_count)
        sub_count_avg ==
            running_avg(global_table.sub_count_avg, global_table.window_count, sub_count)
        samp_count_avg ==
            running_avg(global_table.samp_count_avg, global_table.window_count, samp_count)
        samp_sub_count_avg ==
            running_avg(global_table.samp_sub_count_avg, global_table.window_count,
                        samp_sub_count)
    IN  GlobalTable(global_table.start_ts, end_ts, window_count,
                    sub_count_avg, Max2(global_table.sub_count_max, sub_count),
                    samp_count_avg, Max2(global_table.samp_count_max, samp_count),
                    samp_sub_count_avg,
                    RatMax(global_table.samp_sub_count_max, IntRat(samp_sub_count)),
                    Max2(global_table.threshold_suggested, sub_count_avg))

\* infer_global_table ignoring the configured threshold
infer_global_table_no_floor(local_table, threshold, start_ts, end_ts) ==
    LET sub_count == SumValues(local_table[INDEX[2]])
        samp_count == Cardinality(DOMAIN local_table[INDEX[2]])
        samp_sub_count == samp_sub_count_of(sub_count, samp_count)
    IN  GlobalTable(start_ts, end_ts, 1, sub_count, sub_count, samp_count, samp_count,
                    samp_sub_count, IntRat(samp_sub_count), sub_count)

infer_global_table(local_table, threshold, start_ts, end_ts) ==
    LET sub_count == SumValues(local_table[INDEX[2]])
        samp_count == Cardinality(DOMAIN local_table[INDEX[2]])
        samp_sub_count == samp_sub_count_of(sub_count, samp_count)
    IN  GlobalTable(start_ts, end_ts, 1, sub_count, sub_count, samp_count, samp_count,
                    samp_sub_count, IntRat(samp_sub_count), Max2(sub_count, threshold))

\* the truth value of a dict: non-empty
DictTruthy(d) == DOMAIN d # {}

\* "global_table and local_table": a table is there and is truthy (a
\* GlobalTable, a ten-field tuple, always is)
HasGlobal(global_tables, p) == p \in DOMAIN global_tables

HasLocal(local_tables, p) == p \in DOMAIN local_tables /\ DictTruthy(local_tables[p])

\* refreshed_table comparing the window's end, not its start, with the entry's end
refreshed_table_by_end(global_tables, local_tables, p, start_ts, end_ts) ==
    IF HasGlobal(global_tables, p) /\ HasLocal(local_tables, p)
    THEN IF DtLt(end_ts, global_tables[p].end_ts)
         THEN global_tables[p]
         ELSE update_global_table(global_tables[p], local_tables[p], end_ts)
    ELSE IF HasGlobal(global_tables, p)
    THEN global_tables[p]
    ELSE infer_global_table(local_tables[p],
                            get_dimension_threshold(DIMENSIONS[1], p[1]),
                            start_ts, end_ts)

\* refreshed_table merging whenever both tables are there
refreshed_table_always_merge(global_tables, local_tables, p, start_ts, end_ts) ==
    IF HasGlobal(global_tables, p) /\ HasLocal(local_tables, p)
    THEN update_global_table(global_tables[p], local_tables[p], end_ts)
    ELSE IF HasGlobal(global_tables, p)
    THEN global_tables[p]
    ELSE infer_global_table(local_tables[p],
                            get_dimension_threshold(DIMENSIONS[1], p[1]),
                            start_ts, end_ts)

refreshed_table(global_tables, local_tables, p, start_ts, end_ts) ==
    IF HasGlobal(global_tables, p) /\ HasLocal(local_tables, p)
    THEN IF DtLt(start_ts, global_tables[p].end_ts)
         THEN global_tables[p]
         ELSE update_global_table(global_tables[p], local_tables[p], end_ts)
    ELSE IF HasGlobal(global_tables, p)
    THEN global_tables[p]
    ELSE infer_global_table(local_tables[p],
                            get_dimension_threshold(DIMENSIONS[1], p[1]),
                            start_ts, end_ts)

\* refresh_global_tables walking the pairs of the baseline only
refresh_global_tables_known_only(global_tables, local_tables, start_ts, end_ts) ==
    [p \in DOMAIN global_tables |->
        refreshed_table(global_tables, local_tables, p, start_ts, end_ts)]

refresh_global_tables(global_tables, local_tables, start_ts, end_ts) ==
    LET all == DOMAIN global_tables \cup DOMAIN local_tables
        kept == {p \in all : HasGlobal(global_tables, p) \/ HasLocal(local_tables, p)}
    IN  [p \in kept |-> refreshed_table(global_tables, local_tables, p, start_ts, end_ts)]

(***************************************************************************)
(* Date-time strings.  A string is held as its sequence of fields: the six *)
(* zero-padded fields of "YYYY-MM-DD HH:MM:SS" (19 characters), followed,  *)
(* when the microsecond is not 0, by the six digits after the point.       *)
(***************************************************************************)
\* a <= b on datetimes
DtLe(a, b) == ~DtLt(b, a)

\* timestamp - datetime.timedelta(days=n)
DtMinusDays(a, n) == [sec |-> a.sec - n * 86400, usec |-> a.usec]

\* year, month and day of the day number d (days since 1970-01-01)
CivilFromDays(d) ==
    LET z   == d + 719468
        era == z \div 146097
        doe == z - era * 146097
        yoe == (doe - doe \div 1460 + doe \div 36524 - doe \div 146096) \div 365
        doy == doe - (365 * yoe + yoe \div 4 - yoe \div 100)
        mp  == (5 * doy + 2) \div 153
        m   == IF mp < 10 THEN mp + 3 ELSE mp - 9
    IN  <<yoe + era * 400 + (IF m <= 2 THEN 1 ELSE 0), m,
          doy - (153 * mp + 2) \div 5 + 1>>

\* the day number of year y, month m, day d
DaysFromCivil(y, m, d) ==
    LET yy  == IF m <= 2 THEN y - 1 ELSE y
        era == yy \div 400
        yoe == yy - era * 400
        doy == (153 * (IF m > 2 THEN m - 3 ELSE m + 9) + 2) \div 5 + d - 1
        doe == yoe * 365 + yoe \div 4 - yoe \div 100 + doy
    IN  era * 146097 + doe - 719468

\* str(timestamp), what json.dump(..., default=str) writes for a datetime
datetime_str(t) ==
    LET ymd == CivilFromDays(t.sec \div 86400)
        rem == t.sec % 86400
        text == <<ymd[1], ymd[2], ymd[3], rem \div 3600, (rem % 3600) \div 60, rem % 60>>
    IN  IF t.usec = 0 THEN text ELSE Append(text, t.usec)

\* s[:19]
first_19(s) == SubSeq(s, 1, 6)

\* datetime.datetime.strptime(s, "%Y-%m-%d %H:%M:%S")
strptime(s) ==
    [sec  |-> DaysFromCivil(s[1], s[2], s[3]) * 86400 + s[4] * 3600 + s[5] * 60 + s[6],
     usec |-> 0]

(***************************************************************************)
(* Persistence of the baseline                                             *)
(***************************************************************************)
\* the fields of the GlobalTable namedtuple, in their order
GlobalTableFields ==
    <<"start_ts", "end_ts", "window_count", "sub_count_avg", "sub_count_max",
      "samp_count_avg", "samp_count_max", "samp_sub_count_avg", "samp_sub_count_max",
      "threshold_suggested">>

\* what json.dump writes for one GlobalTable: the list of its fields, each
\* datetime through str, each number as itself
table_to_json(global_table) ==
    [i \in 1..Len(GlobalTableFields) |->
        IF i <= 2 THEN datetime_str(global_table[GlobalTableFields[i]])
        ELSE global_table[GlobalTableFields[i]]]

\* telemetry_peak_analyzer.save_to_json(global_tables, path): the content written
save_to_json(global_tables) ==
    [p \in DOMAIN global_tables |-> table_to_json(global_tables[p])]

\* get_global_tables_from_file reading either timestamp from the first field
table_from_json_first_ts(table) ==
    GlobalTable(strptime(first_19(table[1])), strptime(first_19(table[1])),
                table[3], table[4], table[5], table[6], table[7], table[8],
                table[9], table[10])

\* the GlobalTable get_global_tables_from_file builds from one stored list
table_from_json(table) ==
    GlobalTable(strptime(first_19(table[1])), strptime(first_19(table[2])),
                table[3], table[4], table[5], table[6], table[7], table[8],
                table[9], table[10])

\* get_global_tables_from_file(path), for the content of the file
get_global_tables_from_file(json_data) ==
    [p \in DOMAIN json_data |-> table_from_json(json_data[p])]

(***************************************************************************)
(* The JSON backend (backends/__init__.py).  A telemetry file is the       *)
(* sequence of its documents; utc_offset is the offset of the local time   *)
(* zone, in seconds.                                                       *)
(***************************************************************************)
\* datetime.datetime.fromtimestamp(milliseconds / 1000): local time
ms_to_datetime(milliseconds, utc_offset) ==
    [sec  |-> milliseconds \div 1000 + utc_offset,
     usec |-> (milliseconds % 1000) * 1000]

\* int((timestamp - epoch).total_seconds())
datetime_to_sec(timestamp) == timestamp.sec

datetime_to_ms(timestamp) == datetime_to_sec(timestamp) * 1000

\* timestamp.date(), as a day number
date_of(timestamp) == timestamp.sec \div 86400

\* index_0 of a document
index_0_of(json_doc, utc_offset) == ms_to_datetime(json_doc[INDEX[1]], utc_offset)

\* in_range with the end of the range included
in_range_end_inclusive(start_date, end_date, index_0) ==
    DtLe(start_date, index_0) /\ DtLe(index_0, end_date)

\* start_date <= index_0 < end_date
in_range(start_date, end_date, index_0) ==
    DtLe(start_date, index_0) /\ DtLt(index_0, end_date)

\* pass 1 of stats: the dates of the documents in the range
stats_dates(start_date, end_date, docs, utc_offset) ==
    {date_of(index_0_of(docs[i], utc_offset)) :
        i \in {j \in DOMAIN docs :
                  in_range(start_date, end_date, index_0_of(docs[j], utc_offset))}}

\* pass 2 of stats: the documents counted for a date
day_docs(day_date, docs, utc_offset) ==
    {i \in DOMAIN docs : date_of(index_0_of(docs[i], utc_offset)) = day_date}

\* dims_0 / dims_1 of a date: k = 1 / k = 2
day_dims(k, day_date, docs, utc_offset) ==
    {docs[i][DIMENSIONS[k]] : i \in day_docs(day_date, docs, utc_offset)}

\* buckets[day_date].get(dim_0, {}).get(dim_1, {}), read with .get(key, 0)
stats_bucket(day_date, dim_0, dim_1, docs, utc_offset) ==
    LET counted == {i \in day_docs(day_date, docs, utc_offset) :
                       /\ docs[i][DIMENSIONS[1]] = dim_0
                       /\ docs[i][DIMENSIONS[2]] = dim_1}
        samp_set == {docs[i][INDEX[2]] : i \in counted}
    IN  IF /\ dim_0 \in day_dims(1, day_date, docs, utc_offset)
           /\ dim_1 \in day_dims(2, day_date, docs, utc_offset)
        THEN [sub_count |-> Cardinality(counted),
              samp_count |-> Cardinality(samp_set),
              samp_sub_count |-> IF samp_set = {} THEN IntRat(0)
                                 ELSE Rat(Cardinality(counted), Cardinality(samp_set))]
        ELSE [sub_count |-> 0, samp_count |-> 0, samp_sub_count |-> IntRat(0)]

\* max of the rationals f[x], x in the non-empty set S
RatMaxOver(f, S) == CHOOSE m \in {f[x] : x \in S} : \A y \in S : ~RatLt(m, f[y])

\* stats averaging a pair over the days on which it has a document
stats_mean_over_active_days(start_date, end_date, docs, utc_offset) ==
    LET dates == stats_dates(start_date, end_date, docs, utc_offset)
        all_dims_0 == UNION {day_dims(1, d, docs, utc_offset) : d \in dates}
        all_dims_1 == UNION {day_dims(2, d, docs, utc_offset) : d \in dates}
        d_slice(p) == [d \in dates |-> stats_bucket(d, p[1], p[2], docs, utc_offset)]
        sub(p)  == [d \in dates |-> d_slice(p)[d].sub_count]
        samp(p) == [d \in dates |-> d_slice(p)[d].samp_count]
        ss(p)   == [d \in dates |-> d_slice(p)[d].samp_sub_count]
        active(p) == Max2(1, Cardinality({d \in dates : sub(p)[d] > 0}))
    IN  [p \in all_dims_0 \X all_dims_1 |->
            [sub_count_avg      |-> Rat(SumValues(sub(p)), active(p)),
             sub_count_max      |-> MaxValues(sub(p)),
             samp_count_avg     |-> Rat(SumValues(samp(p)), active(p)),
             samp_count_max     |-> MaxValues(samp(p)),
             samp_sub_count_max |-> RatMaxOver(ss(p), dates)]]

\* JsonBackend.stats(start_date, end_date, ...)
stats(start_date, end_date, docs, utc_offset) ==
    LET dates == stats_dates(start_date, end_date, docs, utc_offset)
        all_dims_0 == UNION {day_dims(1, d, docs, utc_offset) : d \in dates}
        all_dims_1 == UNION {day_dims(2, d, docs, utc_offset) : d \in dates}
        d_slice(p) == [d \in dates |-> stats_bucket(d, p[1], p[2], docs, utc_offset)]
        sub(p)  == [d \in dates |-> d_slice(p)[d].sub_count]
        samp(p) == [d \in dates |-> d_slice(p)[d].samp_count]
        ss(p)   == [d \in dates |-> d_slice(p)[d].samp_sub_count]
    IN  [p \in all_dims_0 \X all_dims_1 |->
            [sub_count_avg      |-> Rat(SumValues(sub(p)), Cardinality(dates)),
             sub_count_max      |-> MaxValues(sub(p)),
             samp_count_avg     |-> Rat(SumValues(samp(p)), Cardinality(dates)),
             samp_count_max     |-> MaxValues(samp(p)),
             samp_sub_count_max |-> RatMaxOver(ss(p), dates)]]

\* the key a document is counted under by group_by
group_key(json_doc) ==
    [t \in Terms |-> json_doc[t]]

\* counters[key] += 1, the counter held as its items in insertion order
counter_add(counters, key) ==
    IF \E i \in DOMAIN counters : counters[i].key = key
    THEN [i \in DOMAIN counters |->
             IF counters[i].key = key
             THEN [key |-> key, count |-> counters[i].count + 1]
             ELSE counters[i]]
    ELSE Append(counters, [key |-> key, count |-> 1])

RECURSIVE group_counters(_, _, _, _, _)
\* the counter of group_by after the first n documents
group_counters(start_date, end_date, docs, utc_offset, n) ==
    IF n = 0 THEN <<>>
    ELSE LET before == group_counters(start_date, end_date, docs, utc_offset, n - 1)
         IN  IF in_range(start_date, end_date, index_0_of(docs[n], utc_offset))
             THEN counter_add(before, group_key(docs[n]))
             ELSE before

\* JsonBackend.group_by(start_date, end_date, ...)
group_by(start_date, end_date, docs, utc_offset) ==
    LET counters == group_counters(start_date, end_date, docs, utc_offset, Len(docs))
    IN  [i \in DOMAIN counters |->
            [t \in Terms \cup {"count"} |->
                IF t = "count" THEN counters[i].count ELSE counters[i].key[t]]]

\* json_doc[field] raises KeyError
lacks(json_doc, fields) == ~(fields \subseteq DOMAIN json_doc)

\* group_by raising on a document without one of its terms, in the range or not
group_by_raises_eager(start_date, end_date, docs, utc_offset) ==
    \E n \in DOMAIN docs : lacks(docs[n], {INDEX[1]} \cup Terms)

\* group_by raises KeyError: index[0] is read of every document, the
\* dimensions and index[1] of the documents in the range
group_by_raises(start_date, end_date, docs, utc_offset) ==
    \E n \in DOMAIN docs :
        \/ lacks(docs[n], {INDEX[1]})
        \/ /\ in_range(start_date, end_date, index_0_of(docs[n], utc_offset))
           /\ lacks(docs[n], Terms)

\* stats raises KeyError: pass 1 reads index[0] of every document; pass 2,
\* run once per collected date, reads index[1] and the two dimensions of
\* every document
stats_raises(start_date, end_date, docs, utc_offset) ==
    \/ \E n \in DOMAIN docs : lacks(docs[n], {INDEX[1]})
    \/ /\ stats_dates(start_date, end_date, docs, utc_offset) # {}
       /\ \E n \in DOMAIN docs : lacks(docs[n], {INDEX[2]} \cup Range(DIMENSIONS))

(***************************************************************************)
(* Tables from the backend                                                 *)
(***************************************************************************)
\* DEFAULT_METRIC_TABLE_AGE, in days
DEFAULT_METRIC_TABLE_AGE == 10

\* _get_window_count(start_ts, end_ts), both in milliseconds
get_window_count(start_ms, end_ms) ==
    LET delta_hours  == (((end_ms - start_ms) \div 1000) \div 60) \div 60
        window_count == IF delta_hours % 24 = 0 THEN delta_hours \div 24 ELSE delta_hours
    IN  IF window_count = 0 THEN 1 ELSE window_count

\* get_global_tables leaving out the pairs whose statistics are all 0
get_global_tables_skip_empty(ret, end_date) ==
    LET start_date == DtMinusDays(end_date, DEFAULT_METRIC_TABLE_AGE)
    IN  [p \in {q \in DOMAIN ret : ret[q].sub_count_max > 0} |->
            LET sub_count_avg  == ret[p].sub_count_avg
                samp_count_avg == ret[p].samp_count_avg
            IN  GlobalTable(
                    start_date, end_date,
                    get_window_count(datetime_to_ms(start_date), datetime_to_ms(end_date)),
                    RoundRat(sub_count_avg),
                    ret[p].sub_count_max,
                    RoundRat(samp_count_avg),
                    ret[p].samp_count_max,
                    IF samp_count_avg.num = 0 THEN 0
                    ELSE RoundDiv(sub_count_avg.num * samp_count_avg.den,
                                  sub_count_avg.den * samp_count_avg.num),
                    ret[p].samp_sub_count_max,
                    Max2(RoundRat(sub_count_avg),
                         get_dimension_threshold(DIMENSIONS[1], p[1])))]

\* get_global_tables(), for the result ret of stats and the clock's end_date
get_global_tables(ret, end_date) ==
    LET start_date == DtMinusDays(end_date, DEFAULT_METRIC_TABLE_AGE)
    IN  [p \in DOMAIN ret |->
            LET sub_count_avg  == ret[p].sub_count_avg
                samp_count_avg == ret[p].samp_count_avg
            IN  GlobalTable(
                    start_date, end_date,
                    get_window_count(datetime_to_ms(start_date), datetime_to_ms(end_date)),
                    RoundRat(sub_count_avg),
                    ret[p].sub_count_max,
                    RoundRat(samp_count_avg),
                    ret[p].samp_count_max,
                    IF samp_count_avg.num = 0 THEN 0
                    ELSE RoundDiv(sub_count_avg.num * samp_count_avg.den,
                                  sub_count_avg.den * samp_count_avg.num),
                    ret[p].samp_sub_count_max,
                    Max2(RoundRat(sub_count_avg),
                         get_dimension_threshold(DIMENSIONS[1], p[1])))]

\* add_item counting one per record of group_by, whatever its count
add_item_one_per_record(tables, item) ==
    LET p == <<item[DIMENSIONS[1]], item[DIMENSIONS[2]]>>
        table == IF p \in DOMAIN tables THEN tables[p] ELSE [t \in Terms |-> EmptyMap]
        added == [t \in Terms |->
                    [v \in DOMAIN table[t] \cup {item[t]} |->
                        (IF v \in DOMAIN table[t] THEN table[t][v] ELSE 0)
                        + (IF v = item[t] THEN 1 ELSE 0)]]
    IN  [q \in DOMAIN tables \cup {p} |-> IF q = p THEN added ELSE tables[q]]

\* one step of the loop of get_local_tables
add_item(tables, item) ==
    LET p == <<item[DIMENSIONS[1]], item[DIMENSIONS[2]]>>
        table == IF p \in DOMAIN tables THEN tables[p] ELSE [t \in Terms |-> EmptyMap]
        added == [t \in Terms |->
                    [v \in DOMAIN table[t] \cup {item[t]} |->
                        (IF v \in DOMAIN table[t] THEN table[t][v] ELSE 0)
                        + (IF v = item[t] THEN item["count"] ELSE 0)]]
    IN  [q \in DOMAIN tables \cup {p} |-> IF q = p THEN added ELSE tables[q]]

RECURSIVE local_tables_after(_, _)
\* the local tables after the first n items of json_data
local_tables_after(json_data, n) ==
    IF n = 0 THEN EmptyMap
    ELSE add_item(local_tables_after(json_data, n - 1), json_data[n])

\* get_local_tables(), for the result json_data of group_by
get_local_tables(json_data) == local_tables_after(json_data, Len(json_data))

(***************************************************************************)
(* State                                                                   *)
(***************************************************************************)
VARIABLES
    pc,                 \* the operation last completed / the position in run()
    file,               \* the baseline file: None when missing, else <<content>>
    start_ts, end_ts,   \* the analyzer's window (self._start_ts, self._end_ts)
    threshold,          \* the override threshold, Optional[int]
    global_tables,      \* the baseline held by the caller
    local_tables,       \* the window's raw local tables
    local_stats,        \* get_peaks' local_tables_stats
    global_stats,       \* get_peaks' global_tables_stats
    peaks,              \* the result of get_peaks
    old_global_tables,  \* history: the baseline as it was passed to the last refresh
    init_global_tables, \* history: the baseline before the first refresh
    runs,               \* calls of refresh_global_tables / runs started so far
    telemetry,          \* the documents of the backend's telemetry file
    utc_offset,         \* the offset of the local time zone, in seconds
    output_file_path,   \* the output file of the peaks, Optional
    saved_tables,       \* history: the baseline last written to the baseline file
    run_log,            \* history: what the current run has done so far, in order
    stats_ret,          \* history: the last result of the backend's stats
    stats_end,          \* history: the end_date of the last call of stats, Optional
    group_ret           \* history: the last result of the backend's group_by

vars == <<pc, file, start_ts, end_ts, threshold, global_tables, local_tables,
          local_stats, global_stats, peaks, old_global_tables, init_global_tables,
          runs, telemetry, utc_offset, output_file_path, saved_tables, run_log,
          stats_ret, stats_end, group_ret>>

\* what no operation of the analyzer touches: the backend's data and the time zone
env == <<telemetry, utc_offset>>

(***************************************************************************)
(* Inputs of the analyzer when it is called directly (as the unit tests    *)
(* do): dimension values, samples, counts, tables                          *)
(***************************************************************************)
\* "suspicious" has no configured threshold
Dim0 == {"malicious", "suspicious"}

Dim1 == {"exe"}

Pairs == Dim0 \X Dim1

SampleSeq == <<"s1", "s2", "s3">>

Counts == {1, 10, 40, 60}

\* the per-sample submission counts of a window, up to the names of the
\* samples: samples s1..sk with non-decreasing counts
SampleMaps ==
    {m \in UNION {[{SampleSeq[i] : i \in 1..k} -> Counts] : k \in 0..Len(SampleSeq)} :
        \A i, j \in 1..Len(SampleSeq) :
            (i < j /\ SampleSeq[j] \in DOMAIN m) => m[SampleSeq[i]] <= m[SampleSeq[j]]}

\* a one-key dict holding a window's total, empty when the total is 0
Bucket(key, total) == IF total = 0 THEN EmptyMap ELSE [k \in {key} |-> total]

\* the raw local table of pair p whose samples have the counts m
LocalTableOf(p, m) ==
    [t \in Terms |->
        IF t = INDEX[2] THEN m
        ELSE IF t = DIMENSIONS[1] THEN Bucket(p[1], SumValues(m))
        ELSE IF t = DIMENSIONS[2] THEN Bucket(p[2], SumValues(m))
        ELSE IF t = CROSS_DIMENSIONS[1] THEN Bucket("u1", SumValues(m))
        ELSE Bucket("API", SumValues(m))]

\* the pair whose tables range widely / the pair whose tables range narrowly
WidePair == <<"malicious", "exe">>

NarrowMaps == {m \in SampleMaps : DOMAIN m = {"s1"} /\ m["s1"] = 10}

LocalEntries(p) ==
    {LocalTableOf(p, m) : m \in IF p = WidePair THEN SampleMaps ELSE NarrowMaps}

Days == 0..MaxDay

Thresholds == {None, Some(0), Some(15), Some(100)}

\* baseline entries for the calls of get_peaks
PeakGlobalEntries(p) ==
    {GlobalTable(Midnight(0), Midnight(1), 1, 3, 12, 2, 2, 4, ss_max, thr) :
        ss_max \in IF p = WidePair THEN {IntRat(0), Rat(5, 2), IntRat(75)} ELSE {IntRat(5)},
        thr \in IF p = WidePair THEN {0, 10, 90} ELSE {10}}

\* baseline entries for the calls of refresh_global_tables
RefreshGlobalEntries(p) ==
    IF p = WidePair
    THEN {GlobalTable(Midnight(0), Midnight(d), wc, sub_avg, 12, 2, 2, 4, ss_max, thr) :
             d \in 1..MaxDay, wc \in {1, 4}, sub_avg \in {3, 12},
             ss_max \in {Rat(5, 2), IntRat(75)}, thr \in {10, 90}}
    ELSE {GlobalTable(Midnight(0), Midnight(1), 1, 3, 12, 2, 2, 4, IntRat(5), 10)}

\* the entries a table of the given kind may hold for pair p
EntriesOf(kind, p) ==
    IF kind = "local" THEN LocalEntries(p)
    ELSE IF kind = "peaks" THEN PeakGlobalEntries(p)
    ELSE RefreshGlobalEntries(p)

\* the tables (dicts keyed by pair) of the given kind
TablesFrom(kind) ==
    UNION {{t \in [D -> UNION {EntriesOf(kind, p) : p \in D}] :
                \A p \in D : t[p] \in EntriesOf(kind, p)} : D \in SUBSET Pairs}

(***************************************************************************)
(* The analyzer called directly                                            *)
(***************************************************************************)
InitApi(G, L, S, E, T) ==
    /\ pc = "init"
    /\ file = None
    /\ global_tables \in G
    /\ local_tables \in L
    /\ start_ts \in S
    /\ end_ts \in E
    /\ threshold \in T
    /\ local_stats = EmptyMap
    /\ global_stats = EmptyMap
    /\ peaks = EmptyMap
    /\ old_global_tables = global_tables
    /\ init_global_tables = global_tables
    /\ runs = 0
    /\ telemetry = <<>>
    /\ utc_offset = 0
    /\ output_file_path = None
    /\ saved_tables = EmptyMap
    /\ run_log = <<>>
    /\ stats_ret = EmptyMap
    /\ stats_end = None
    /\ group_ret = <<>>

\* get_peaks dropping from the local tables the pairs without a baseline entry
ApiGetPeaks_dropping_unpaired ==
    /\ pc = "init"
    /\ local_stats' = get_local_tables_stats(local_tables)
    /\ global_stats' = get_global_tables_stats(global_tables, threshold)
    /\ peaks' = get_peaks(global_tables, local_tables, threshold)
    /\ local_tables' = [p \in DOMAIN local_tables \cap DOMAIN global_tables |->
                           local_tables[p]]
    /\ pc' = "get_peaks"
    /\ UNCHANGED <<file, start_ts, end_ts, threshold, global_tables,
                   old_global_tables, init_global_tables, runs, env,
                   output_file_path, saved_tables, run_log, stats_ret, stats_end,
                   group_ret>>

\* peaks = analyzer.get_peaks(global_tables, local_tables, threshold=threshold)
ApiGetPeaks ==
    /\ pc = "init"
    /\ local_stats' = get_local_tables_stats(local_tables)
    /\ global_stats' = get_global_tables_stats(global_tables, threshold)
    /\ peaks' = get_peaks(global_tables, local_tables, threshold)
    /\ pc' = "get_peaks"
    /\ UNCHANGED <<file, start_ts, end_ts, threshold, global_tables, local_tables,
                   old_global_tables, init_global_tables, runs, env,
                   output_file_path, saved_tables, run_log, stats_ret, stats_end,
                   group_ret>>

\* global_tables = analyzer.refresh_global_tables(global_tables, local_tables)
ApiRefresh ==
    /\ runs < MaxRuns
    /\ old_global_tables' = global_tables
    /\ global_tables' = refresh_global_tables(global_tables, local_tables, start_ts, end_ts)
    /\ runs' = runs + 1
    /\ pc' = "refresh"
    /\ UNCHANGED <<file, start_ts, end_ts, threshold, local_tables, local_stats,
                   global_stats, peaks, init_global_tables, env, output_file_path,
                   saved_tables, run_log, stats_ret, stats_end, group_ret>>

InitPeaks ==
    InitApi(TablesFrom("peaks"), TablesFrom("local"),
            {Midnight(1)}, {Midnight(2)}, Thresholds)

SpecPeaks == InitPeaks /\ [][ApiGetPeaks]_vars

InitRefresh ==
    InitApi(TablesFrom("refresh"), TablesFrom("local"),
            {Midnight(d) : d \in Days}, {Midnight(d) : d \in Days}, {None})

SpecRefresh == InitRefresh /\ [][ApiRefresh]_vars

(***************************************************************************)
(* The analyzer called directly, over a backend whose stats the caller     *)
(* sets (the mock backend of the unit tests)                               *)
(***************************************************************************)
\* the first day of the windows: the statistics reach back ten days from it
FirstDay == DEFAULT_METRIC_TABLE_AGE

RunDays == FirstDay..(FirstDay + MaxDay)

\* the statistics a backend returns for one pair: of days without any
\* submission, of days with three submissions of two samples in all, of days
\* with five submissions of three samples in all
MockStatsEntries ==
    {[sub_count_avg |-> IntRat(0), sub_count_max |-> 0, samp_count_avg |-> IntRat(0),
      samp_count_max |-> 0, samp_sub_count_max |-> IntRat(0)],
     [sub_count_avg |-> Rat(3, 2), sub_count_max |-> 2, samp_count_avg |-> IntRat(1),
      samp_count_max |-> 1, samp_sub_count_max |-> IntRat(2)],
     [sub_count_avg |-> Rat(5, 2), sub_count_max |-> 3, samp_count_avg |-> Rat(3, 2),
      samp_count_max |-> 2, samp_sub_count_max |-> Rat(3, 2)]}

MockStats == UNION {[D -> MockStatsEntries] : D \in SUBSET Pairs}

\* the clock of the calls: an afternoon of the first day
MockNow == [sec |-> FirstDay * 86400 + 56849, usec |-> 264024]

\* global_tables = analyzer.get_global_tables()
ApiGetGlobalTables ==
    /\ pc = "init"
    /\ run_log = <<>>
    /\ runs = 0
    /\ stats_ret' \in MockStats
    /\ global_tables' = get_global_tables(stats_ret', MockNow)
    /\ init_global_tables' = global_tables'
    /\ old_global_tables' = global_tables'
    /\ stats_end' = Some(MockNow)
    /\ run_log' = <<"stats">>
    /\ UNCHANGED <<pc, file, start_ts, end_ts, threshold, local_tables, local_stats,
                   global_stats, peaks, runs, env, output_file_path, saved_tables,
                   group_ret>>

InitStatistics ==
    InitApi({EmptyMap}, TablesFrom("local"),
            {Midnight(d) : d \in RunDays}, {Midnight(d) : d \in RunDays}, {None})

NextStatistics ==
    \/ ApiGetGlobalTables
    \/ ApiGetPeaks
    \/ ApiRefresh

SpecStatistics == InitStatistics /\ [][NextStatistics]_vars

(***************************************************************************)
(* run() of __main__.py over the JSON backend: one action per step         *)
(***************************************************************************)
\* a telemetry document submitted at second sec of day day
Doc(day, sec, sha1, severity, file_type, user_id) ==
    [t \in {INDEX[1]} \cup Terms |->
        IF t = INDEX[1] THEN (day * 86400 + sec) * 1000
        ELSE IF t = INDEX[2] THEN sha1
        ELSE IF t = DIMENSIONS[1] THEN severity
        ELSE IF t = DIMENSIONS[2] THEN file_type
        ELSE IF t = CROSS_DIMENSIONS[1] THEN user_id
        ELSE "API"]

\* the documents a telemetry file is drawn from: a sample submitted twice at
\* noon, a submission half an hour before midnight, one of another severity
\* and file type the day after, less than an hour before the clock's time of
\* day, and a submission an hour before midnight
AllDocs ==
    <<Doc(FirstDay, 43200, "s1", "suspicious", "exe", "u1"),
      Doc(FirstDay, 43200, "s1", "suspicious", "exe", "u1"),
      Doc(FirstDay - 1, 84600, "s2", "suspicious", "exe", "u2"),
      Doc(FirstDay + 1, 54000, "s1", "malicious", "pdf", "u1"),
      Doc(FirstDay, 82800, "s2", "suspicious", "exe", "u2")>>

RECURSIVE pick_docs(_, _)
\* the documents of AllDocs[1..n] whose position is in S, in their order
pick_docs(S, n) ==
    IF n = 0 THEN <<>>
    ELSE IF n \in S THEN Append(pick_docs(S, n - 1), AllDocs[n])
    ELSE pick_docs(S, n - 1)

TelemetryFiles == {pick_docs(S, Len(AllDocs)) : S \in SUBSET DOMAIN AllDocs}

\* the offsets of the local time zone: UTC, and one hour east of it
UtcOffsets == {0, 3600}

\* the values of datetime.datetime.utcnow(): an afternoon, with and without
\* microseconds
Clock ==
    {[sec |-> d * 86400 + 56849, usec |-> u] : d \in RunDays \ {FirstDay}, u \in {0, 264024}}

\* the windows parse_date_options returns: start < end for two dates given,
\* start = end for a delta of 0
Windows == {w \in RunDays \X RunDays : w[1] <= w[2]}

RunThresholds == {None, Some(1)}

OutputFilePaths == {None, Some("peaks.json")}

Init ==
    /\ pc = "idle"
    /\ file = None
    /\ telemetry \in TelemetryFiles
    /\ utc_offset \in UtcOffsets
    /\ start_ts = Midnight(FirstDay)
    /\ end_ts = Midnight(FirstDay)
    /\ threshold = None
    /\ output_file_path = None
    /\ global_tables = EmptyMap
    /\ local_tables = EmptyMap
    /\ local_stats = EmptyMap
    /\ global_stats = EmptyMap
    /\ peaks = EmptyMap
    /\ old_global_tables = EmptyMap
    /\ init_global_tables = EmptyMap
    /\ saved_tables = EmptyMap
    /\ run_log = <<>>
    /\ stats_ret = EmptyMap
    /\ stats_end = None
    /\ group_ret = <<>>
    /\ runs = 0

\* the process ends: the local variables of run() are gone
ProcessEnds ==
    /\ global_tables' = EmptyMap
    /\ local_tables' = EmptyMap
    /\ local_stats' = EmptyMap
    /\ global_stats' = EmptyMap
    /\ peaks' = EmptyMap

\* main() parses the options and run() constructs the analyzer
Start ==
    /\ pc \in {"idle", "done", "crashed"}
    /\ runs < MaxRuns
    /\ \E w \in Windows :
          /\ start_ts' = Midnight(w[1])
          /\ end_ts' = Midnight(w[2])
    /\ threshold' \in RunThresholds
    /\ output_file_path' \in OutputFilePaths
    /\ runs' = runs + 1
    /\ run_log' = <<>>
    /\ stats_ret' = EmptyMap
    /\ stats_end' = None
    /\ group_ret' = <<>>
    /\ pc' = "start"
    /\ UNCHANGED <<file, global_tables, local_tables, local_stats, global_stats, peaks,
                   old_global_tables, init_global_tables, env, saved_tables>>

\* global_tables = peak_analyzer.get_global_tables_from_file(global_table_path)
LoadFromFile ==
    /\ pc = "start"
    /\ file # None
    /\ global_tables' = get_global_tables_from_file(file[1])
    /\ init_global_tables' = global_tables'
    /\ run_log' = Append(run_log, "read")
    /\ pc' = "global"
    /\ UNCHANGED <<file, start_ts, end_ts, threshold, local_tables, local_stats,
                   global_stats, peaks, old_global_tables, runs, env, output_file_path,
                   saved_tables, stats_ret, stats_end, group_ret>>

\* except IOError: global_tables = peak_analyzer.get_global_tables()
LoadFromBackend ==
    /\ pc = "start"
    /\ file = None
    /\ \E end_date \in Clock :
          /\ stats_ret' = stats(DtMinusDays(end_date, DEFAULT_METRIC_TABLE_AGE), end_date,
                               telemetry, utc_offset)
          /\ global_tables' = get_global_tables(stats_ret', end_date)
          /\ stats_end' = Some(end_date)
    /\ init_global_tables' = global_tables'
    /\ run_log' = Append(run_log, "stats")
    /\ pc' = "global"
    /\ UNCHANGED <<file, start_ts, end_ts, threshold, local_tables, local_stats,
                   global_stats, peaks, old_global_tables, runs, env, output_file_path,
                   saved_tables, group_ret>>

\* local_tables = peak_analyzer.get_local_tables()
GetLocalTables ==
    /\ pc = "global"
    /\ group_ret' = group_by(start_ts, end_ts, telemetry, utc_offset)
    /\ local_tables' = get_local_tables(group_ret')
    /\ run_log' = Append(run_log, "group_by")
    /\ pc' = "local"
    /\ UNCHANGED <<file, start_ts, end_ts, threshold, global_tables, local_stats,
                   global_stats, peaks, old_global_tables, init_global_tables, runs, env,
                   output_file_path, saved_tables, stats_ret, stats_end>>

\* get_peaks called on the baseline into which the window is already merged
GetPeaks_against_refreshed ==
    /\ pc = "local"
    /\ local_stats' = get_local_tables_stats(local_tables)
    /\ global_stats' = get_global_tables_stats(global_tables, threshold)
    /\ peaks' = get_peaks(refresh_global_tables(global_tables, local_tables, start_ts, end_ts),
                          local_tables, threshold)
    /\ run_log' = Append(run_log, "peaks")
    /\ pc' = "peaks"
    /\ UNCHANGED <<file, start_ts, end_ts, threshold, global_tables, local_tables,
                   old_global_tables, init_global_tables, runs, env, output_file_path,
                   saved_tables, stats_ret, stats_end, group_ret>>

\* peaks = peak_analyzer.get_peaks(global_tables, local_tables, threshold=threshold)
GetPeaks ==
    /\ pc = "local"
    /\ local_stats' = get_local_tables_stats(local_tables)
    /\ global_stats' = get_global_tables_stats(global_tables, threshold)
    /\ peaks' = get_peaks(global_tables, local_tables, threshold)
    /\ run_log' = Append(run_log, "peaks")
    /\ pc' = "peaks"
    /\ UNCHANGED <<file, start_ts, end_ts, threshold, global_tables, local_tables,
                   old_global_tables, init_global_tables, runs, env, output_file_path,
                   saved_tables, stats_ret, stats_end, group_ret>>

\* if output_file_path: peak_analyzer.save_to_json(peaks, output_file_path); the
\* analyzer has no such method, the AttributeError ends the run
SaveOutput ==
    /\ pc = "peaks"
    /\ output_file_path # None
    /\ ProcessEnds
    /\ run_log' = Append(run_log, "error")
    /\ pc' = "crashed"
    /\ UNCHANGED <<file, start_ts, end_ts, threshold, old_global_tables,
                   init_global_tables, runs, env, output_file_path, saved_tables,
                   stats_ret, stats_end, group_ret>>

\* refresh writing the override threshold, when given, into every entry
Refresh_with_override ==
    /\ pc = "peaks"
    /\ output_file_path = None
    /\ old_global_tables' = global_tables
    /\ global_tables' =
          LET refreshed == refresh_global_tables(global_tables, local_tables, start_ts, end_ts)
          IN  [p \in DOMAIN refreshed |->
                  IF threshold = None THEN refreshed[p]
                  ELSE [refreshed[p] EXCEPT !.threshold_suggested = threshold[1]]]
    /\ run_log' = Append(run_log, "refresh")
    /\ pc' = "refreshed"
    /\ UNCHANGED <<file, start_ts, end_ts, threshold, local_tables, local_stats,
                   global_stats, peaks, init_global_tables, runs, env, output_file_path,
                   saved_tables, stats_ret, stats_end, group_ret>>

\* global_tables = peak_analyzer.refresh_global_tables(global_tables, local_tables)
Refresh ==
    /\ pc = "peaks"
    /\ output_file_path = None
    /\ old_global_tables' = global_tables
    /\ global_tables' = refresh_global_tables(global_tables, local_tables, start_ts, end_ts)
    /\ run_log' = Append(run_log, "refresh")
    /\ pc' = "refreshed"
    /\ UNCHANGED <<file, start_ts, end_ts, threshold, local_tables, local_stats,
                   global_stats, peaks, init_global_tables, runs, env, output_file_path,
                   saved_tables, stats_ret, stats_end, group_ret>>

\* telemetry_peak_analyzer.save_to_json(global_tables, global_table_path); return 0
Save ==
    /\ pc = "refreshed"
    /\ file' = Some(save_to_json(global_tables))
    /\ saved_tables' = global_tables
    /\ ProcessEnds
    /\ run_log' = Append(run_log, "write")
    /\ pc' = "done"
    /\ UNCHANGED <<start_ts, end_ts, threshold, old_global_tables, init_global_tables,
                   runs, env, output_file_path, stats_ret, stats_end, group_ret>>

Next ==
    \/ Start
    \/ LoadFromFile
    \/ LoadFromBackend
    \/ GetLocalTables
    \/ GetPeaks
    \/ SaveOutput
    \/ Refresh
    \/ Save

Spec == Init /\ [][Next]_vars

(***************************************************************************)
(* The JSON backend called directly, over files with incomplete documents  *)
(***************************************************************************)
\* json_doc without the field
Without(json_doc, field) == [t \in DOMAIN json_doc \ {field} |-> json_doc[t]]

\* the documents of the files: two complete ones, a day apart, and each of
\* them without its timestamp, its sample, one of its dimensions, or a cross
\* dimension
BackendPool ==
    LET complete == {Doc(FirstDay, 43200, "s1", "suspicious", "exe", "u1"),
                     Doc(FirstDay + 1, 54000, "s2", "suspicious", "exe", "u1")}
    IN  complete \cup {Without(d, f) : d \in complete,
                          f \in {INDEX[1], INDEX[2], DIMENSIONS[1], DIMENSIONS[2],
                                 CROSS_DIMENSIONS[1]}}

BackendFiles == {<<>>} \cup {<<a>> : a \in BackendPool}
                \cup {<<a, b>> : a \in BackendPool, b \in BackendPool}

\* the end_date of stats: a morning before every document, an afternoon after
\* the first one
BackendClock == {[sec |-> FirstDay * 86400 + 32400, usec |-> 0],
                 [sec |-> (FirstDay + 1) * 86400 + 32400, usec |-> 0]}

InitBackend ==
    /\ pc = "init"
    /\ file = None
    /\ global_tables = EmptyMap
    /\ local_tables = EmptyMap
    /\ \E w \in Windows : w[1] < w[2] /\ start_ts = Midnight(w[1]) /\ end_ts = Midnight(w[2])
    /\ threshold = None
    /\ local_stats = EmptyMap
    /\ global_stats = EmptyMap
    /\ peaks = EmptyMap
    /\ old_global_tables = EmptyMap
    /\ init_global_tables = EmptyMap
    /\ runs = 0
    /\ telemetry \in BackendFiles
    /\ utc_offset \in UtcOffsets
    /\ output_file_path = None
    /\ saved_tables = EmptyMap
    /\ run_log = <<>>
    /\ stats_ret = EmptyMap
    /\ stats_end = None
    /\ group_ret = <<>>

\* json_data = backend.group_by(start_date, end_date, index, dimensions)
JsonGroupBy ==
    /\ pc = "init"
    /\ {"group_by", "group_by KeyError"} \cap Range(run_log) = {}
    /\ IF group_by_raises(start_ts, end_ts, telemetry, utc_offset)
       THEN /\ run_log' = Append(run_log, "group_by KeyError")
            /\ UNCHANGED group_ret
       ELSE /\ run_log' = Append(run_log, "group_by")
            /\ group_ret' = group_by(start_ts, end_ts, telemetry, utc_offset)
    /\ UNCHANGED <<pc, file, start_ts, end_ts, threshold, global_tables, local_tables,
                   local_stats, global_stats, peaks, old_global_tables, init_global_tables,
                   runs, env, output_file_path, saved_tables, stats_ret, stats_end>>

\* ret = backend.stats(start_date, end_date, index, dimensions, dimensions_values)
JsonStats ==
    /\ pc = "init"
    /\ {"stats", "stats KeyError"} \cap Range(run_log) = {}
    /\ \E end_date \in BackendClock :
          /\ stats_end' = Some(end_date)
          /\ LET start_date == DtMinusDays(end_date, DEFAULT_METRIC_TABLE_AGE)
             IN  IF stats_raises(start_date, end_date, telemetry, utc_offset)
                 THEN /\ run_log' = Append(run_log, "stats KeyError")
                      /\ UNCHANGED stats_ret
                 ELSE /\ run_log' = Append(run_log, "stats")
                      /\ stats_ret' = stats(start_date, end_date, telemetry, utc_offset)
    /\ UNCHANGED <<pc, file, start_ts, end_ts, threshold, global_tables, local_tables,
                   local_stats, global_stats, peaks, old_global_tables, init_global_tables,
                   runs, env, output_file_path, saved_tables, group_ret>>

NextBackend == JsonGroupBy \/ JsonStats

SpecBackend == InitBackend /\ [][NextBackend]_vars

(***************************************************************************)
(* Vocabulary of the properties                                            *)
(***************************************************************************)
\* the window's data for pair p: its per-sample counts, its submissions, its
\* distinct samples
WindowCounts(p) == local_tables[p][INDEX[2]]

WindowSubCount(p) == SumValues(WindowCounts(p))

WindowSampCount(p) == Cardinality(DOMAIN WindowCounts(p))

\* the effective threshold as documented: the override if one is given, else
\* the entry's threshold_suggested
DocumentedThreshold(g) == IF threshold = None THEN g.threshold_suggested ELSE threshold[1]

\* the three conditions of the peak predicate, on local statistics ls and a
\* baseline entry g
CondA(ls, g) == RatLt(RatMul(Rat(8, 10), g.samp_sub_count_max), ls.samp_sub_count_mean)

CondB(ls) == RatLt(Rat(5, 10), ls.samp_sub_ratio)

CondC(ls) ==
    GtMeanPlusStd(ls.samp_sub_count_max, ls.samp_sub_count_mean, ls.samp_sub_count_std)

AnyCond(p) ==
    CondA(local_stats[p], global_tables[p]) \/ CondB(local_stats[p]) \/ CondC(local_stats[p])

\* v is x/d rounded to a nearest integer (d > 0)
Nearest(v, x, d) == 2 * Abs(v * d - x) <= d

InBoth == DOMAIN local_tables \cap DOMAIN global_tables

(***************************************************************************)
(* Properties of get_peaks and get_global_tables_stats (SpecPeaks)         *)
(***************************************************************************)
\* C1: get_peaks never reports a pair whose local sub_count is strictly below
\* the pair's effective threshold (the documented one, and the one that
\* get_global_tables_stats computed), whatever its other statistics are.
C1_VolumeGate ==
    pc = "get_peaks" =>
        \A p \in DOMAIN peaks :
            /\ p \in InBoth
            /\ ~(WindowSubCount(p) < DocumentedThreshold(global_tables[p]))
            /\ ~(WindowSubCount(p) < global_stats[p].threshold)

\* a pair below its threshold whose statistics satisfy a condition of the
\* predicate, and that is not reported
C1_Witness ==
    /\ pc = "get_peaks"
    /\ \E p \in InBoth :
          /\ WindowSubCount(p) < DocumentedThreshold(global_tables[p])
          /\ AnyCond(p)
          /\ p \notin DOMAIN peaks

\* C2: a pair present in the local and the global data with
\* sub_count >= effective threshold (the override if given, else
\* threshold_suggested) is reported if and only if (a) mean > 0.8 * global max,
\* or (b) ratio > 0.5, or (c) max > mean + std, all strict.
C2_PeakIff ==
    pc = "get_peaks" =>
        \A p \in InBoth :
            WindowSubCount(p) >= DocumentedThreshold(global_tables[p])
                => (p \in DOMAIN peaks <=> AnyCond(p))

\* the same with the threshold that get_global_tables_stats computed
PeakIffAboveStatsThreshold ==
    pc = "get_peaks" =>
        \A p \in InBoth :
            WindowSubCount(p) >= global_stats[p].threshold
                => (p \in DOMAIN peaks <=> AnyCond(p))

\* C3: get_global_tables_stats yields, for exactly the pairs of the baseline,
\* threshold = the override whenever one is given (0 included), else the
\* entry's threshold_suggested, and samp_sub_count_max unchanged.
C3_EffectiveThreshold ==
    pc = "get_peaks" =>
        /\ DOMAIN global_stats = DOMAIN global_tables
        /\ \A p \in DOMAIN global_tables :
              /\ global_stats[p].threshold = DocumentedThreshold(global_tables[p])
              /\ global_stats[p].samp_sub_count_max = global_tables[p].samp_sub_count_max

(***************************************************************************)
(* Properties of refresh_global_tables (SpecRefresh)                       *)
(***************************************************************************)
\* a pair whose baseline entry and window data meet in the merge case
MergeCase(p) ==
    /\ p \in DOMAIN old_global_tables
    /\ p \in DOMAIN local_tables
    /\ ~DtLt(start_ts, old_global_tables[p].end_ts)

C5_NonDecreasing ==
    pc = "refresh" =>
        \A p \in DOMAIN old_global_tables :
            /\ p \in DOMAIN global_tables
            /\ global_tables[p].window_count >= old_global_tables[p].window_count
            /\ global_tables[p].threshold_suggested >= old_global_tables[p].threshold_suggested
            /\ global_tables[p].sub_count_max >= old_global_tables[p].sub_count_max
            /\ global_tables[p].samp_count_max >= old_global_tables[p].samp_count_max
            /\ ~RatLt(global_tables[p].samp_sub_count_max,
                      old_global_tables[p].samp_sub_count_max)

\* a merge whose new average is below the old suggested threshold, and that
\* raises a maximum
C5_Witness ==
    /\ pc = "refresh"
    /\ \E p \in DOMAIN old_global_tables :
          /\ MergeCase(p)
          /\ global_tables[p].sub_count_avg < old_global_tables[p].threshold_suggested
          /\ global_tables[p].sub_count_max > old_global_tables[p].sub_count_max

\* C6: in the merge case the entry gets window_count = old + 1, each *_avg =
\* (old_avg * old_window_count + new_value) / (old_window_count + 1) rounded to
\* a nearest integer (new_value: the window's sub_count, its samp_count, and
\* sub_count / samp_count rounded), each *_max = max(old, new_value), start_ts
\* unchanged, end_ts = the window's end, threshold_suggested = max(old, new
\* sub_count_avg).
C6_Merge ==
    pc = "refresh" =>
        \A p \in DOMAIN old_global_tables :
            MergeCase(p) =>
                LET old == old_global_tables[p]
                    new == global_tables[p]
                    w == old.window_count
                    sub == WindowSubCount(p)
                    samp == WindowSampCount(p)
                IN  /\ new.window_count = w + 1
                    /\ new.start_ts = old.start_ts
                    /\ new.end_ts = end_ts
                    /\ Nearest(new.sub_count_avg, old.sub_count_avg * w + sub, w + 1)
                    /\ Nearest(new.samp_count_avg, old.samp_count_avg * w + samp, w + 1)
                    /\ new.sub_count_max = IF sub > old.sub_count_max
                                           THEN sub ELSE old.sub_count_max
                    /\ new.samp_count_max = IF samp > old.samp_count_max
                                            THEN samp ELSE old.samp_count_max
                    /\ new.threshold_suggested =
                           IF new.sub_count_avg > old.threshold_suggested
                           THEN new.sub_count_avg ELSE old.threshold_suggested
                    /\ \E v \in 0..sub :
                          /\ IF samp = 0 THEN v = 0 ELSE Nearest(v, sub, samp)
                          /\ Nearest(new.samp_sub_count_avg,
                                     old.samp_sub_count_avg * w + v, w + 1)
                          /\ new.samp_sub_count_max =
                                 IF RatLt(old.samp_sub_count_max, IntRat(v))
                                 THEN IntRat(v) ELSE old.samp_sub_count_max

\* a merge into an entry that already counts several windows, whose running
\* mean is not the plain mean of the old average and the new value
C6_Witness ==
    /\ pc = "refresh"
    /\ \E p \in DOMAIN old_global_tables :
          /\ MergeCase(p)
          /\ old_global_tables[p].window_count > 1
          /\ WindowSampCount(p) >= 2
          /\ ~Nearest(global_tables[p].sub_count_avg,
                      old_global_tables[p].sub_count_avg + WindowSubCount(p), 2)

\* C7: an existing entry is unchanged in all ten fields when the window has no
\* data for the pair, or has data but starts before the entry's end_ts; it
\* changes only in the merge case.
C7_Frame ==
    pc = "refresh" =>
        \A p \in DOMAIN old_global_tables :
            /\ (p \notin DOMAIN local_tables \/ DtLt(start_ts, old_global_tables[p].end_ts))
                   => (p \in DOMAIN global_tables /\ global_tables[p] = old_global_tables[p])
            /\ (p \in DOMAIN global_tables /\ global_tables[p] # old_global_tables[p])
                   => MergeCase(p)

\* one refresh that leaves an entry alone because the window has no data for
\* it, and another entry because the window starts before its end
C7_Witness ==
    /\ pc = "refresh"
    /\ \E p, q \in DOMAIN old_global_tables :
          /\ p \notin DOMAIN local_tables
          /\ q \in DOMAIN local_tables
          /\ DtLt(start_ts, old_global_tables[q].end_ts)
          /\ DtLt(old_global_tables[q].end_ts, end_ts)

\* the configured threshold floor of a dimension-0 value
ConfiguredFloor(v) ==
    CASE v = "malicious" -> 90
      [] v = "benign" -> 500
      [] OTHER -> 0

\* C8: a pair with window data and no baseline entry gets window_count = 1,
\* start_ts/end_ts = the window's bounds, sub_count_avg = sub_count_max =
\* sub_count, samp_count_avg = samp_count_max = samp_count, samp_sub_count_avg =
\* samp_sub_count_max = sub_count / samp_count rounded (0 when samp_count = 0),
\* threshold_suggested = max(sub_count, configured floor of the dim0 value).
C8_Infer ==
    pc = "refresh" =>
        \A p \in DOMAIN local_tables \ DOMAIN old_global_tables :
            LET new == global_tables[p]
                sub == WindowSubCount(p)
                samp == WindowSampCount(p)
            IN  /\ p \in DOMAIN global_tables
                /\ new.window_count = 1
                /\ new.start_ts = start_ts
                /\ new.end_ts = end_ts
                /\ new.sub_count_avg = sub
                /\ new.sub_count_max = sub
                /\ new.samp_count_avg = samp
                /\ new.samp_count_max = samp
                /\ IF samp = 0 THEN new.samp_sub_count_avg = 0
                   ELSE Nearest(new.samp_sub_count_avg, sub, samp)
                /\ new.samp_sub_count_max = IntRat(new.samp_sub_count_avg)
                /\ new.threshold_suggested =
                       IF sub > ConfiguredFloor(p[1]) THEN sub ELSE ConfiguredFloor(p[1])

\* one refresh that infers an entry for a value with a configured floor, from
\* a window whose submissions are no multiple of its samples, and an entry for
\* a value without a floor
C8_Witness ==
    /\ pc = "refresh"
    /\ \E p \in DOMAIN local_tables \ DOMAIN old_global_tables :
          /\ ConfiguredFloor(p[1]) > 0
          /\ WindowSubCount(p) \notin {0, ConfiguredFloor(p[1])}
          /\ global_tables[p].samp_sub_count_avg * WindowSampCount(p) # WindowSubCount(p)
    /\ \E p \in DOMAIN local_tables \ DOMAIN old_global_tables :
          ConfiguredFloor(p[1]) = 0

\* C9: the refreshed baseline has exactly the pairs of the old baseline and
\* of the window's local tables; empty inputs give an empty refreshed baseline
\* and an empty peak set.
C9_PairsUnion ==
    pc = "refresh" =>
        /\ DOMAIN global_tables = DOMAIN old_global_tables \cup DOMAIN local_tables
        /\ (old_global_tables = EmptyMap /\ local_tables = EmptyMap)
               => /\ global_tables = EmptyMap
                  /\ get_peaks(old_global_tables, local_tables, threshold) = EmptyMap

\* a refresh of a baseline and a window that each hold a pair the other lacks
C9_Witness ==
    /\ pc = "refresh"
    /\ DOMAIN old_global_tables \ DOMAIN local_tables # {}
    /\ DOMAIN local_tables \ DOMAIN old_global_tables # {}

\* a refresh of an empty baseline with an empty window
C9_EmptyReached ==
    pc = "refresh" /\ old_global_tables = EmptyMap /\ local_tables = EmptyMap

\* the baseline re-read from what save_to_json writes for the baseline held
Reloaded == get_global_tables_from_file(save_to_json(global_tables))

\* a GlobalTable with the microseconds of its two timestamps dropped
WholeSeconds(global_table) ==
    [global_table EXCEPT !.start_ts.usec = 0, !.end_ts.usec = 0]

WholeSecondTables(tables) == [p \in DOMAIN tables |-> WholeSeconds(tables[p])]

\* the run has read its baseline from the file the run before wrote
ReadBack == pc = "global" /\ file # None

\* C10, as stated: every baseline the engine produces (derived from the
\* backend, or refreshed) is re-read from its saved form equal in all ten
\* fields, the two timestamps included; and the baseline a run reads is the
\* baseline the run before saved.
C10_RoundTrip ==
    /\ Reloaded = global_tables
    /\ ReadBack => global_tables = saved_tables

\* C10, amended: every baseline the engine produces is re-read from its saved
\* form with the eight numeric fields equal, in the documented order, and
\* with start_ts and end_ts equal to the original's truncated to whole
\* seconds; so with all ten fields equal when neither timestamp of the
\* original has microseconds.
C10_RoundTripWholeSeconds ==
    /\ DOMAIN Reloaded = DOMAIN global_tables
    /\ \A p \in DOMAIN global_tables :
          /\ \A i \in 3..Len(GlobalTableFields) :
                Reloaded[p][GlobalTableFields[i]] = global_tables[p][GlobalTableFields[i]]
          /\ Reloaded[p].start_ts = [global_tables[p].start_ts EXCEPT !.usec = 0]
          /\ Reloaded[p].end_ts = [global_tables[p].end_ts EXCEPT !.usec = 0]
          /\ DOMAIN Reloaded[p] = Range(GlobalTableFields)
          /\ (global_tables[p].start_ts.usec = 0 /\ global_tables[p].end_ts.usec = 0)
                => Reloaded[p] = global_tables[p]
    /\ ReadBack => global_tables = WholeSecondTables(saved_tables)

\* a run reads back a baseline saved with an entry derived from the backend
\* at a time with microseconds, which comes back changed, and an entry
\* inferred from a window, which comes back as it was
C10_Witness ==
    /\ ReadBack
    /\ \E p \in DOMAIN saved_tables :
          /\ saved_tables[p].end_ts.usec # 0
          /\ global_tables[p] # saved_tables[p]
          /\ saved_tables[p].samp_sub_count_max.den # 1
    /\ \E p \in DOMAIN saved_tables :
          /\ saved_tables[p].start_ts = Midnight(date_of(saved_tables[p].start_ts))
          /\ saved_tables[p].start_ts # saved_tables[p].end_ts
          /\ global_tables[p] = saved_tables[p]

\* the current run has ended, by return or by an error
RunEnded == pc \in {"done", "crashed"}

\* how often the current run has done e
Count(e) == Cardinality({i \in DOMAIN run_log : run_log[i] = e})

\* the baseline file is read at most once, written at most once, and never
\* read after it was written
ReadOnceBeforeWrite ==
    /\ Count("read") <= 1
    /\ Count("write") <= 1
    /\ \A i, j \in DOMAIN run_log :
          (run_log[i] = "read" /\ run_log[j] = "write") => i < j

\* the run has refreshed the baseline once and written it once, as its last step
RefreshedAndWrittenLast ==
    /\ Count("refresh") = 1
    /\ Count("write") = 1
    /\ Len(run_log) >= 2
    /\ run_log[Len(run_log) - 1] = "refresh"
    /\ run_log[Len(run_log)] = "write"

\* C11: in every run the baseline file is read at most once and before
\* anything is written, and every run that has computed its peaks has, when
\* it ends, refreshed the baseline and written it exactly once as its last
\* step, with or without an output file for the peaks.
C11_ReadOnceWriteLast ==
    /\ ReadOnceBeforeWrite
    /\ (RunEnded /\ Count("peaks") > 0) => RefreshedAndWrittenLast

\* what holds of the runs: the reads and writes are ordered as stated, and a
\* run for which no output file was requested ends with refresh and write
RunOrderWithoutOutput ==
    /\ ReadOnceBeforeWrite
    /\ (RunEnded /\ Count("peaks") > 0 /\ output_file_path = None) => RefreshedAndWrittenLast
    /\ (RunEnded /\ output_file_path # None) => Count("write") = 0

\* the current run found no baseline file and asked the backend
FellBack == Count("stats") = 1

\* the baseline is one get_global_tables derives from the backend's stats
DerivedFromBackend(tables) ==
    \E end_date \in Clock :
        tables = get_global_tables(
                     stats(DtMinusDays(end_date, DEFAULT_METRIC_TABLE_AGE), end_date,
                           telemetry, utc_offset),
                     end_date)

\* a run that fell back detects its peaks against the derived baseline and
\* refreshes that baseline
UsesDerivedBaseline ==
    /\ (pc = "start" /\ file = None) => run_log = <<>>
    /\ (FellBack /\ ~RunEnded) => DerivedFromBackend(init_global_tables)
    /\ (FellBack /\ pc \in {"global", "local", "peaks"}) => global_tables = init_global_tables
    /\ (FellBack /\ pc = "peaks") =>
          peaks = get_peaks(init_global_tables, local_tables, threshold)
    /\ (FellBack /\ pc = "refreshed") =>
          global_tables = refresh_global_tables(init_global_tables, local_tables,
                                                start_ts, end_ts)

\* C12: a run that finds the baseline file missing does not abort: it derives
\* the baseline from the backend's stats, detects the peaks against it and
\* refreshes it, so that it ends having refreshed and written the baseline.
C12_MissingFileFallback ==
    /\ UsesDerivedBaseline
    /\ (FellBack /\ RunEnded) =>
          /\ pc = "done"
          /\ run_log = <<"stats", "group_by", "peaks", "refresh", "write">>

\* what holds of the fallback: the derived baseline is used, and the run ends
\* by return when no output file was requested
FallbackWithoutOutput ==
    /\ UsesDerivedBaseline
    /\ (FellBack /\ RunEnded /\ output_file_path = None) =>
          /\ pc = "done"
          /\ run_log = <<"stats", "group_by", "peaks", "refresh", "write">>

\* C13: get_peaks skips every pair present in only one of the local and the
\* global tables: the reported pairs are pairs of both, and against an empty
\* baseline nothing is reported, whatever the window holds.
C13_SkipUnpaired ==
    pc = "get_peaks" =>
        /\ DOMAIN peaks \subseteq InBoth
        /\ global_tables = EmptyMap => peaks = EmptyMap
        /\ peaks = get_peaks(global_tables,
                             [p \in InBoth |-> local_tables[p]], threshold)
        /\ peaks = get_peaks([p \in InBoth |-> global_tables[p]],
                             local_tables, threshold)

\* get_peaks reports a pair of both tables and skips a pair that only the
\* window has, whose statistics satisfy a condition of the predicate
C13_Witness ==
    /\ pc = "get_peaks"
    /\ peaks # EmptyMap
    /\ \E p \in DOMAIN local_tables \ DOMAIN global_tables :
          /\ WindowSubCount(p) > 0
          /\ CondA(local_stats[p], [samp_sub_count_max |-> IntRat(0)])
          /\ p \notin DOMAIN peaks

\* get_peaks against an empty baseline, with a window of many submissions
C13_EmptyBaselineReached ==
    /\ pc = "get_peaks"
    /\ global_tables = EmptyMap
    /\ \E p \in DOMAIN local_tables : WindowSubCount(p) > LOCAL_MIN_COUNT

RECURSIVE CountsTotal(_, _)
\* the sum of the counts m holds for the first n samples of SampleSeq
CountsTotal(m, n) ==
    IF n = 0 THEN 0
    ELSE CountsTotal(m, n - 1)
         + (IF SampleSeq[n] \in DOMAIN m THEN m[SampleSeq[n]] ELSE 0)

\* C14: for every pair of the raw local tables, get_local_tables_stats yields
\* sub_count = the sum of the per-sample counts, samp_count = the number of
\* samples, samp_sub_count_max = the largest count, samp_sub_count_mean =
\* sub_count / samp_count, max and mean being 0 without samples; and the
\* statistics have exactly the pairs of the input.
C14_LocalStats ==
    pc = "get_peaks" =>
        /\ DOMAIN local_stats = DOMAIN local_tables
        /\ \A p \in DOMAIN local_tables :
              LET m  == local_tables[p][INDEX[2]]
                  ls == local_stats[p]
              IN  /\ ls.sub_count = CountsTotal(m, Len(SampleSeq))
                  /\ ls.samp_count = Cardinality(DOMAIN m)
                  /\ IF DOMAIN m = {}
                     THEN /\ ls.samp_sub_count_max = 0
                          /\ ls.samp_sub_count_mean = IntRat(0)
                     ELSE /\ \E k \in DOMAIN m : ls.samp_sub_count_max = m[k]
                          /\ \A k \in DOMAIN m : m[k] <= ls.samp_sub_count_max
                          /\ ls.samp_sub_count_mean.num * ls.samp_count
                                = ls.sub_count * ls.samp_sub_count_mean.den

\* statistics of a pair whose samples have different counts and a mean that
\* is no integer, next to a second pair
C14_Witness ==
    /\ pc = "get_peaks"
    /\ Cardinality(DOMAIN local_stats) = 2
    /\ \E p \in DOMAIN local_stats :
          /\ local_stats[p].samp_count = 3
          /\ local_stats[p].samp_sub_count_mean.den # 1
          /\ RatLt(local_stats[p].samp_sub_count_mean,
                   IntRat(local_stats[p].samp_sub_count_max))

\* statistics of a pair without samples
C14_NoSampleReached ==
    /\ pc = "get_peaks"
    /\ \E p \in DOMAIN local_stats : local_stats[p].samp_count = 0

\* C15: samp_sub_ratio is 0 for every pair with sub_count <= 50 (at 50 too),
\* and samp_sub_count_max / sub_count rounded to two decimals for
\* sub_count > 50; so condition (b) of the peak predicate is false for every
\* window of 50 submissions or fewer.
C15_RatioFloor ==
    pc = "get_peaks" =>
        \A p \in DOMAIN local_stats :
            LET ls == local_stats[p]
                hundredths == (ls.samp_sub_ratio.num * 100) \div ls.samp_sub_ratio.den
            IN  IF WindowSubCount(p) <= 50
                THEN /\ ls.samp_sub_ratio = IntRat(0)
                     /\ ~CondB(ls)
                     /\ ~is_dominant_samp_sub(ls)
                ELSE /\ ls.samp_sub_ratio = Rat(hundredths, 100)
                     /\ Nearest(hundredths, 100 * MaxValues(WindowCounts(p)),
                                WindowSubCount(p))

\* a window of exactly 50 submissions, more than half of them of one sample,
\* whose ratio is 0
C15_Witness ==
    /\ pc = "get_peaks"
    /\ \E p \in DOMAIN local_stats :
          /\ local_stats[p].sub_count = 50
          /\ 2 * local_stats[p].samp_sub_count_max > local_stats[p].sub_count
          /\ local_stats[p].samp_sub_ratio = IntRat(0)

\* a window of 51 submissions whose ratio, 40/51, is rounded to 0.78
C15_AboveFloorReached ==
    /\ pc = "get_peaks"
    /\ \E p \in DOMAIN local_stats :
          /\ local_stats[p].sub_count = 51
          /\ local_stats[p].samp_sub_ratio = Rat(78, 100)

\* a window whose ratio, 60/160, lies halfway between two hundredths
C15_TieReached ==
    /\ pc = "get_peaks"
    /\ \E p \in DOMAIN local_stats :
          /\ local_stats[p].sub_count = 160
          /\ local_stats[p].samp_sub_ratio = Rat(38, 100)

(***************************************************************************)
(* Properties of the statistics steps on degenerate input (SpecStatistics) *)
(***************************************************************************)
\* the window has no sample for pair p
NoSample(p) == DOMAIN WindowCounts(p) = {}

\* C16: no statistics step fails on zero samples or zero submissions, and
\* each defines the affected average or ratio as 0: get_local_tables_stats
\* (mean, max and ratio 0; std 0 with fewer than two samples), the merge and
\* the infer step of refresh_global_tables (the window's submissions per
\* sample count as 0), and get_global_tables (samp_sub_count_avg 0).
C16_Degenerate ==
    /\ \A p \in DOMAIN local_stats :
          /\ NoSample(p) =>
                /\ local_stats[p].sub_count = 0
                /\ local_stats[p].samp_sub_count_mean = IntRat(0)
                /\ local_stats[p].samp_sub_count_max = 0
                /\ local_stats[p].samp_sub_ratio = IntRat(0)
          /\ WindowSampCount(p) < 2 => local_stats[p].samp_sub_count_std = StdOf(IntRat(0))
    /\ pc = "get_peaks" => DOMAIN local_stats = DOMAIN local_tables
    /\ pc = "refresh" =>
          \A p \in DOMAIN local_tables :
              /\ p \in DOMAIN global_tables
              /\ (NoSample(p) /\ MergeCase(p)) =>
                    LET old == old_global_tables[p]
                        new == global_tables[p]
                    IN  /\ new.window_count = old.window_count + 1
                        /\ Nearest(new.samp_sub_count_avg,
                                   old.samp_sub_count_avg * old.window_count,
                                   new.window_count)
                        /\ Nearest(new.sub_count_avg, old.sub_count_avg * old.window_count,
                                   new.window_count)
                        /\ new.samp_sub_count_max = old.samp_sub_count_max
              /\ (NoSample(p) /\ p \notin DOMAIN old_global_tables) =>
                    /\ global_tables[p].sub_count_avg = 0
                    /\ global_tables[p].samp_count_avg = 0
                    /\ global_tables[p].samp_sub_count_avg = 0
                    /\ global_tables[p].samp_sub_count_max = IntRat(0)
    /\ (run_log = <<"stats">> /\ runs = 0) =>
          /\ DOMAIN global_tables = DOMAIN stats_ret
          /\ \A p \in DOMAIN stats_ret :
                stats_ret[p].samp_count_avg = IntRat(0) =>
                    /\ global_tables[p].samp_sub_count_avg = 0
                    /\ global_tables[p].samp_count_avg = 0

\* a baseline derived from statistics without any sample, the statistics of a
\* window without any sample, and that window merged into that baseline
C16_Witness ==
    /\ pc = "refresh"
    /\ runs = 1
    /\ run_log = <<"stats">>
    /\ \E p \in DOMAIN local_stats :
          /\ NoSample(p)
          /\ MergeCase(p)
          /\ stats_ret[p].samp_count_avg = IntRat(0)
          /\ global_tables[p].window_count = old_global_tables[p].window_count + 1
    /\ \E p \in DOMAIN local_stats : WindowSampCount(p) = 1

\* an entry inferred from a window without any sample
C16_InferReached ==
    /\ pc = "refresh"
    /\ \E p \in DOMAIN local_tables \ DOMAIN old_global_tables :
          NoSample(p) /\ global_tables[p].window_count = 1

(***************************************************************************)
(* The documented scenario of get_peaks (SpecPeaks)                        *)
(***************************************************************************)
\* a window of two samples with 10 submissions each for the one pair p,
\* against a baseline with threshold 10 and samp_sub_count_max 0
TwoTensScenario(p) ==
    /\ pc = "get_peaks"
    /\ threshold = None
    /\ DOMAIN local_tables = {p}
    /\ p \in DOMAIN global_tables
    /\ WindowCounts(p) = [s \in {"s1", "s2"} |-> 10]
    /\ global_tables[p].threshold_suggested = 10
    /\ global_tables[p].samp_sub_count_max = IntRat(0)

\* the one peak of the scenario
TwoTensPeak(p) ==
    /\ DOMAIN peaks = {p}
    /\ peaks[p].sub_count = 20
    /\ peaks[p].samp_count = 2
    /\ peaks[p].samp_sub_count_max = 10
    /\ peaks[p].samp_sub_count_mean = IntRat(10)
    /\ peaks[p].samp_sub_ratio = IntRat(0)

\* C17 as stated: the scenario yields exactly one peak with sub_count 20,
\* samp_count 2, samp_sub_count_max 10, samp_sub_count_mean 10 and
\* samp_sub_ratio 0, and the condition that makes it a peak is (b) or (c).
C17_ScenarioByOwnDistribution ==
    \A p \in Pairs :
        TwoTensScenario(p) =>
            /\ TwoTensPeak(p)
            /\ CondB(local_stats[p]) \/ CondC(local_stats[p])

\* C17: the scenario yields exactly that one peak, and the condition that
\* makes it a peak is (a), the mean of 10 exceeding 0.8 times the baseline's
\* maximum of 0; the ratio (b) is 0 and the maximum equals the mean, so that
\* neither (b) nor (c) holds.
C17_ScenarioByOverallRate ==
    \A p \in Pairs :
        TwoTensScenario(p) =>
            /\ TwoTensPeak(p)
            /\ CondA(local_stats[p], global_tables[p])
            /\ ~CondB(local_stats[p])
            /\ ~CondC(local_stats[p])

\* the scenario, after get_peaks reported its pair
C17_Witness ==
    \E p \in Pairs : TwoTensScenario(p) /\ p \in DOMAIN peaks /\ peaks[p].sub_count = 20

(***************************************************************************)
(* What a reported peak carries (SpecPeaks)                                *)
(***************************************************************************)
\* peak pk carries the local statistics ls
CarriesLocal(pk, ls) ==
    /\ pk.sub_count = ls.sub_count
    /\ pk.samp_count = ls.samp_count
    /\ pk.samp_sub_count_max = ls.samp_sub_count_max
    /\ pk.samp_sub_count_mean = ls.samp_sub_count_mean
    /\ pk.samp_sub_count_std = ls.samp_sub_count_std
    /\ pk.samp_sub_ratio = ls.samp_sub_ratio

\* the peaks carry their pairs' local statistics and the baseline's
\* samp_sub_count_max and documented effective threshold
PeaksCarry ==
    \A p \in DOMAIN peaks :
        /\ p \in InBoth
        /\ CarriesLocal(peaks[p], local_table_stats(local_tables[p]))
        /\ peaks[p].global_samp_sub_count_max = global_tables[p].samp_sub_count_max
        /\ peaks[p].global_threshold_suggested = DocumentedThreshold(global_tables[p])

\* C18: every peak that get_peaks emits for a pair carries exactly that
\* pair's local statistics and the two global values it was compared
\* against, the baseline's samp_sub_count_max and the effective threshold
\* (the override when one is given, else threshold_suggested).
C18_PeakCarries == pc = "get_peaks" => PeaksCarry

\* the same for every override other than 0
PeakCarriesUnlessZeroOverride == (pc = "get_peaks" /\ threshold # Some(0)) => PeaksCarry

\* a peak reported under an override, carrying the override
PeakCarriesOverrideReached ==
    /\ pc = "get_peaks"
    /\ threshold = Some(15)
    /\ \E p \in DOMAIN peaks : peaks[p].global_threshold_suggested = 15
                                /\ global_tables[p].threshold_suggested # 15

(***************************************************************************)
(* Properties of the JSON backend (Spec)                                   *)
(***************************************************************************)
\* the timestamp of the i-th record of the telemetry file, as the backend
\* reads it
RecordTime(i) == ms_to_datetime(telemetry[i][INDEX[1]], utc_offset)

\* the records with start <= timestamp < end
RecordsIn(start, end) ==
    {i \in DOMAIN telemetry :
        LET t == RecordTime(i)
        IN  /\ (start.sec < t.sec \/ (start.sec = t.sec /\ start.usec <= t.usec))
            /\ (t.sec < end.sec \/ (t.sec = end.sec /\ t.usec < end.usec))}

\* the combination of a record: its dimension values and its sample identity
Combination(r) == [t \in Terms |-> r[t]]

\* C19: group_by returns exactly one record per distinct combination of
\* (dimension values, sample identity) that occurs among the records with
\* start <= timestamp < end, with count the number of such records having
\* that combination; the counts sum to the number of records in the range,
\* and records outside the range contribute nothing.
C19_GroupBy ==
    pc = "local" =>
        LET inside == RecordsIn(start_ts, end_ts)
            combinations == {Combination(telemetry[i]) : i \in inside}
            counts == [k \in DOMAIN group_ret |-> group_ret[k].count]
        IN  /\ {Combination(group_ret[k]) : k \in DOMAIN group_ret} = combinations
            /\ Len(group_ret) = Cardinality(combinations)
            /\ \A k \in DOMAIN group_ret :
                  /\ DOMAIN group_ret[k] = Terms \cup {"count"}
                  /\ group_ret[k].count =
                        Cardinality({i \in inside :
                            Combination(telemetry[i]) = Combination(group_ret[k])})
            /\ SumValues(counts) = Cardinality(inside)

\* group_by over a file with a record exactly at the end of the range and
\* therefore left out, a combination that occurs twice in the range, and
\* another one that occurs once
C19_Witness ==
    /\ pc = "local"
    /\ \E i \in DOMAIN telemetry : RecordTime(i) = end_ts
    /\ \E k \in DOMAIN group_ret : group_ret[k].count = 2
    /\ \E k \in DOMAIN group_ret : group_ret[k].count = 1

\* group_by over a file with a record exactly at the start of the range, counted
C19_AtStartReached ==
    /\ pc = "local"
    /\ \E i \in DOMAIN telemetry :
          /\ RecordTime(i) = start_ts
          /\ \E k \in DOMAIN group_ret : Combination(group_ret[k]) = Combination(telemetry[i])

\* group_by over a file with records before the range and after it
C19_OutsideReached ==
    /\ pc = "local"
    /\ group_ret # <<>>
    /\ \E i, j \in DOMAIN telemetry : /\ DtLt(RecordTime(i), start_ts)
                                      /\ DtLt(end_ts, RecordTime(j))

\* the start of the range of the statistics that ended at end_date
StatsStart(end_date) == DtMinusDays(end_date, DEFAULT_METRIC_TABLE_AGE)

\* the telemetry file without its records outside [start, end)
WithoutOutside(start, end) ==
    LET inside == RecordsIn(start, end)
        RECURSIVE keep(_)
        keep(n) == IF n = 0 THEN <<>>
                   ELSE IF n \in inside THEN Append(keep(n - 1), telemetry[n])
                   ELSE keep(n - 1)
    IN  keep(Len(telemetry))

\* C20: stats is a read over the half-open range [start, end): a record
\* outside the range never changes any returned value, also when start or end
\* is not at a day boundary; the statistics are those of the file without its
\* records outside the range.
C20_StatsRange ==
    (pc = "global" /\ stats_end # None) =>
        LET end == stats_end[1]
            start == StatsStart(end)
        IN  stats_ret = stats(start, end, WithoutOutside(start, end), utc_offset)

\* the same, as long as no record outside the range has the calendar date of
\* a record in the range
StatsRangeUnlessSameDay ==
    (pc = "global" /\ stats_end # None) =>
        LET end == stats_end[1]
            start == StatsStart(end)
            inside == RecordsIn(start, end)
        IN  (\A i \in inside, j \in DOMAIN telemetry \ inside :
                 date_of(RecordTime(i)) # date_of(RecordTime(j)))
            => stats_ret = stats(start, end, WithoutOutside(start, end), utc_offset)

\* statistics over a file with a record outside the range on another day than
\* the records in the range
StatsOutsideOtherDayReached ==
    /\ pc = "global"
    /\ stats_end # None
    /\ stats_ret # EmptyMap
    /\ LET inside == RecordsIn(StatsStart(stats_end[1]), stats_end[1])
       IN  /\ DOMAIN telemetry \ inside # {}
           /\ \A i \in inside, j \in DOMAIN telemetry \ inside :
                 date_of(RecordTime(i)) # date_of(RecordTime(j))

\* the statistics were just read from the backend
StatsRead == pc = "global" /\ stats_end # None

\* the calendar days found in the range of the statistics
DaysInRange ==
    {date_of(RecordTime(i)) : i \in RecordsIn(StatsStart(stats_end[1]), stats_end[1])}

\* the records of pair p on calendar day d
DayRecords(p, d) ==
    {i \in DOMAIN telemetry :
        /\ date_of(RecordTime(i)) = d
        /\ telemetry[i][DIMENSIONS[1]] = p[1]
        /\ telemetry[i][DIMENSIONS[2]] = p[2]}

\* the day bucket of pair p for day d: submissions, distinct samples, and
\* submissions per sample (0 without a sample)
DaySub(p, d) == Cardinality(DayRecords(p, d))

DaySamp(p, d) == Cardinality({telemetry[i][INDEX[2]] : i \in DayRecords(p, d)})

DayRatio(p, d) == IF DaySamp(p, d) = 0 THEN IntRat(0) ELSE Rat(DaySub(p, d), DaySamp(p, d))

\* m is the largest of the integers f[d], d in the non-empty set S
IsMaxOf(m, f, S) == (\E d \in S : f[d] = m) /\ (\A d \in S : f[d] <= m)

\* C21: for every pair it returns, stats has one bucket per calendar day
\* found in the range (that day's submissions, distinct samples and their
\* ratio, 0 without a sample); sub_count_avg and samp_count_avg are the means
\* of the per-day values over those days, and the three maxima are the maxima
\* over those days; a day without a record of the pair counts as 0 in both.
C21_DayBuckets ==
    StatsRead =>
        \A p \in DOMAIN stats_ret :
            LET n == Cardinality(DaysInRange)
                sub == [d \in DaysInRange |-> DaySub(p, d)]
                samp == [d \in DaysInRange |-> DaySamp(p, d)]
            IN  /\ n > 0
                /\ stats_ret[p].sub_count_avg = Rat(SumValues(sub), n)
                /\ stats_ret[p].samp_count_avg = Rat(SumValues(samp), n)
                /\ IsMaxOf(stats_ret[p].sub_count_max, sub, DaysInRange)
                /\ IsMaxOf(stats_ret[p].samp_count_max, samp, DaysInRange)
                /\ \E d \in DaysInRange : DayRatio(p, d) = stats_ret[p].samp_sub_count_max
                /\ \A d \in DaysInRange :
                      ~RatLt(stats_ret[p].samp_sub_count_max, DayRatio(p, d))

\* statistics over two days or more, with a pair that has records on one day
\* and none on another, and a day on which a sample was submitted twice
C21_Witness ==
    /\ StatsRead
    /\ Cardinality(DaysInRange) >= 2
    /\ \E p \in DOMAIN stats_ret :
          /\ \E d, e \in DaysInRange : DaySub(p, d) = 0 /\ DaySub(p, e) > 0
          /\ \E d \in DaysInRange : DaySub(p, d) > DaySamp(p, d)
          /\ stats_ret[p].sub_count_avg.den > 1

(***************************************************************************)
(* Properties of the JSON backend on incomplete records (SpecBackend)      *)
(***************************************************************************)
\* the fields every record is required to have
RequiredFields == {INDEX[1], INDEX[2], DIMENSIONS[1], DIMENSIONS[2]}

\* record i of the telemetry file lacks one of the fields
Lacks(i, fields) == \E f \in fields : f \notin DOMAIN telemetry[i]

NoTimestamp == \E i \in DOMAIN telemetry : Lacks(i, {INDEX[1]})

GroupByCalled == \E k \in DOMAIN run_log : run_log[k] \in {"group_by", "group_by KeyError"}

GroupByFailed == \E k \in DOMAIN run_log : run_log[k] = "group_by KeyError"

StatsCalled == \E k \in DOMAIN run_log : run_log[k] \in {"stats", "stats KeyError"}

StatsFailed == \E k \in DOMAIN run_log : run_log[k] = "stats KeyError"

C22_UnreadReached ==
    /\ ~NoTimestamp
    /\ \E i \in DOMAIN telemetry : Lacks(i, RequiredFields)
    /\ GroupByCalled /\ ~GroupByFailed /\ group_ret # <<>>
    /\ StatsCalled /\ ~StatsFailed

OtherCrossMaps ==
    {EmptyMap, [v \in {"u1"} |-> 1], [v \in {"u1", "u2"} |-> IF v = "u1" THEN 5 ELSE 200]}

\* the local tables with the maps x1 and x2 for the two cross dimensions of
\* every pair, everything else the same
WithCross(tables, x1, x2) ==
    [p \in DOMAIN tables |->
        [t \in Terms |-> IF t = CROSS_DIMENSIONS[1] THEN x1
                         ELSE IF t = CROSS_DIMENSIONS[2] THEN x2
                         ELSE tables[p][t]]]

\* C24: the cross dimension breakdowns do not influence peak detection: local
\* tables that agree on the sample-identity field of every pair and differ
\* only in the maps of the cross dimensions give the same peaks with the same
\* field values; cross_stats of the local statistics are the raw maps.
C24_CrossIgnored ==
    pc = "get_peaks" =>
        /\ \A x1, x2 \in OtherCrossMaps :
              LET other == WithCross(local_tables, x1, x2)
              IN  /\ get_peaks(global_tables, other, threshold) = peaks
                  /\ \A p \in DOMAIN other :
                        get_local_tables_stats(other)[p].cross_stats =
                            [x \in Range(CROSS_DIMENSIONS) |-> other[p][x]]
        /\ \A p \in DOMAIN local_stats :
              local_stats[p].cross_stats =
                  [x \in Range(CROSS_DIMENSIONS) |-> local_tables[p][x]]

\* a peak whose pair has non-empty cross dimension maps other than the ones
\* compared with
C24_Witness ==
    /\ pc = "get_peaks"
    /\ \E p \in DOMAIN peaks :
          /\ local_tables[p][CROSS_DIMENSIONS[1]] # EmptyMap
          /\ local_tables[p][CROSS_DIMENSIONS[1]] \notin OtherCrossMaps
          /\ peaks[p].samp_sub_ratio # IntRat(0)
    /\ \E p \in DOMAIN local_tables : p \notin DOMAIN peaks

(***************************************************************************)
(* The order of the operations of a run (Spec)                             *)
(***************************************************************************)
\* the current run has loaded or derived its baseline (get-global)
GotGlobal == Count("read") + Count("stats") > 0

\* in the log of the current run every a comes before every b
Before(a, b) ==
    \A i, j \in DOMAIN run_log : (run_log[i] \in a /\ run_log[j] \in b) => i < j

\* the peaks are those of the baseline as loaded, before the window is merged
\* into it, and the refresh merges the window into that baseline
PeaksBeforeMerge ==
    /\ pc = "peaks" => /\ global_tables = init_global_tables
                       /\ peaks = get_peaks(init_global_tables, local_tables, threshold)
    /\ pc = "refreshed" =>
          /\ peaks = get_peaks(init_global_tables, local_tables, threshold)
          /\ global_tables = refresh_global_tables(init_global_tables, local_tables,
                                                   start_ts, end_ts)

\* C25 as stated: within one run the operations are invoked in the order
\* get-local, get-global, get-peaks, refresh, and the peaks are computed
\* against the baseline as it was before the window is merged into it.
C25_LocalFirst ==
    /\ Before({"group_by"}, {"read", "stats"})
    /\ Before({"read", "stats"}, {"peaks"})
    /\ Before({"peaks"}, {"refresh"})
    /\ Count("peaks") > 0 => (Count("group_by") = 1 /\ GotGlobal)
    /\ PeaksBeforeMerge

\* C25: within one run the operations are invoked in the order get-global
\* (the baseline loaded from its file or derived from the backend), get-local,
\* get-peaks, refresh, each at most once and none without the ones before it,
\* and the peaks are computed against the baseline as it was before the
\* window is merged into it.
C25_GlobalFirst ==
    /\ Before({"read", "stats"}, {"group_by"})
    /\ Before({"group_by"}, {"peaks"})
    /\ Before({"peaks"}, {"refresh"})
    /\ Count("read") + Count("stats") <= 1
    /\ Count("group_by") <= 1 /\ Count("peaks") <= 1 /\ Count("refresh") <= 1
    /\ Count("group_by") > 0 => GotGlobal
    /\ Count("peaks") > 0 => Count("group_by") = 1
    /\ Count("refresh") > 0 => Count("peaks") = 1
    /\ PeaksBeforeMerge

\* a run that did all four operations, whose refresh changed the baseline the
\* peaks were computed against, and that found a peak
C25_Witness ==
    /\ pc = "refreshed"
    /\ Count("refresh") = 1
    /\ global_tables # init_global_tables
    /\ init_global_tables # EmptyMap
    /\ peaks # EmptyMap

(***************************************************************************)
(* The baseline over a sequence of refreshes (SpecRefresh)                 *)
(***************************************************************************)
\* the step is a refresh with a window of positive length
RefreshStep == runs' = runs + 1 /\ pc' = "refresh" /\ DtLt(start_ts, end_ts)

\* what one refresh does to the entries it finds
RefreshKeepsOrder ==
    \A p \in DOMAIN global_tables :
        /\ p \in DOMAIN global_tables'
        /\ global_tables'[p].start_ts = global_tables[p].start_ts
        /\ DtLe(global_tables[p].end_ts, global_tables'[p].end_ts)
        /\ global_tables'[p].window_count \in
              {global_tables[p].window_count, global_tables[p].window_count + 1}
        /\ global_tables'[p].window_count = global_tables[p].window_count + 1 =>
              /\ DtLe(global_tables[p].end_ts, start_ts)
              /\ global_tables'[p].end_ts = end_ts

\* after a refresh no window that starts before the end of an entry is merged
\* into it, the window just refreshed with included
NeverMergedAgain ==
    (pc = "refresh" /\ DtLt(start_ts, end_ts)) =>
        /\ \A p \in DOMAIN global_tables, d, e \in Days :
              DtLt(Midnight(d), global_tables[p].end_ts) =>
                  refresh_global_tables(global_tables, local_tables,
                                        Midnight(d), Midnight(e))[p] = global_tables[p]
        /\ \A p \in DOMAIN init_global_tables :
              global_tables[p].window_count <= init_global_tables[p].window_count + 1

EntryInOrder(g) ==
    /\ g.window_count >= 1
    /\ g.sub_count_avg <= g.sub_count_max
    /\ g.samp_count_avg <= g.samp_count_max
    /\ ~RatLt(g.samp_sub_count_max, IntRat(g.samp_sub_count_avg))
    /\ g.threshold_suggested >= g.sub_count_avg

\* C27: starting from an empty baseline, after any sequence of
\* refresh_global_tables calls with non-negative counts every baseline entry
\* has window_count >= 1, sub_count_avg <= sub_count_max, samp_count_avg <=
\* samp_count_max, samp_sub_count_avg <= samp_sub_count_max and
\* threshold_suggested >= sub_count_avg: an entry a refresh infers has them,
\* and a refresh keeps them of every entry that has them.
C27_EntriesInOrder ==
    /\ init_global_tables = EmptyMap => \A p \in DOMAIN global_tables :
                                            EntryInOrder(global_tables[p])
    /\ pc = "refresh" =>
          \A p \in DOMAIN global_tables :
              (p \in DOMAIN old_global_tables => EntryInOrder(old_global_tables[p]))
                  => EntryInOrder(global_tables[p])

\* a refresh that merged a window into an entry with these properties and
\* changed its average and one of its maxima
C27_Witness ==
    /\ pc = "refresh"
    /\ \E p \in DOMAIN old_global_tables \cap DOMAIN global_tables :
          /\ EntryInOrder(old_global_tables[p])
          /\ global_tables[p].window_count = old_global_tables[p].window_count + 1
          /\ global_tables[p].sub_count_avg # old_global_tables[p].sub_count_avg
          /\ global_tables[p].sub_count_max > old_global_tables[p].sub_count_max
          /\ global_tables[p].samp_sub_count_avg # old_global_tables[p].samp_sub_count_avg

\* two refreshes from the empty baseline: an entry inferred, then merged into
C27_FromEmptyReached ==
    /\ init_global_tables = EmptyMap
    /\ pc = "refresh"
    /\ \E p \in DOMAIN global_tables : global_tables[p].window_count = 2

(***************************************************************************)
(* The raw local tables (Spec)                                             *)
(***************************************************************************)
\* the records of group_by for pair p
GroupRecords(p) ==
    {k \in DOMAIN group_ret : /\ group_ret[k][DIMENSIONS[1]] = p[1]
                              /\ group_ret[k][DIMENSIONS[2]] = p[2]}

\* the raw events of the window for pair p
WindowEvents(p) ==
    {i \in RecordsIn(start_ts, end_ts) : /\ telemetry[i][DIMENSIONS[1]] = p[1]
                                         /\ telemetry[i][DIMENSIONS[2]] = p[2]}

\* C28: in the raw local tables that get_local_tables builds from the records
\* of group_by, every pair that appears has a value-to-count map for every
\* term, and for each term the counts of the map sum to the same total, the
\* sum of count over the records of the pair; hence the sub_count of a pair
\* is the number of raw events of the window for that pair.
C28_TermTotals ==
    pc \in {"local", "peaks"} =>
        /\ DOMAIN local_tables =
              {<<group_ret[k][DIMENSIONS[1]], group_ret[k][DIMENSIONS[2]]>> :
                  k \in DOMAIN group_ret}
        /\ \A p \in DOMAIN local_tables :
              /\ DOMAIN local_tables[p] = Terms
              /\ \A t \in Terms :
                    /\ SumValues(local_tables[p][t]) =
                          SumOver([k \in DOMAIN group_ret |-> group_ret[k].count],
                                  GroupRecords(p))
                    /\ SumValues(local_tables[p][t]) = Cardinality(WindowEvents(p))
              /\ pc = "peaks" => local_stats[p].sub_count = Cardinality(WindowEvents(p))

\* peaks computed on local tables with two pairs, one of them built from a
\* record with count 2 and a record with count 1
C28_Witness ==
    /\ pc = "peaks"
    /\ Cardinality(DOMAIN local_tables) = 2
    /\ \E p \in DOMAIN local_tables :
          /\ Cardinality(GroupRecords(p)) = 2
          /\ \E k \in GroupRecords(p) : group_ret[k].count = 2
          /\ local_stats[p].sub_count = 3

(***************************************************************************)
(* The override threshold and the baseline (Spec)                          *)
(***************************************************************************)
\* the refreshed baseline of the current run as its loaded baseline and its
\* window data alone determine it, whatever the override threshold
RefreshedWithoutOverride ==
    refresh_global_tables(init_global_tables,
                          get_local_tables(group_by(start_ts, end_ts, telemetry, utc_offset)),
                          start_ts, end_ts)

\* C29: the override threshold affects peak detection only: runs that start
\* from the same baseline and the same window data but differ in the override
\* (any value, or none) produce and persist the same refreshed baseline, with
\* the same threshold_suggested for every pair; the baseline refreshed and
\* written is the one that the baseline and the window data determine.
C29_OverrideNotPersisted ==
    /\ pc = "refreshed" => global_tables = RefreshedWithoutOverride
    /\ pc = "done" => /\ saved_tables = RefreshedWithoutOverride
                      /\ file = Some(save_to_json(RefreshedWithoutOverride))

\* a run under an override that changed its peaks, about to write a baseline
\* none of whose suggested thresholds is the override
C29_Witness ==
    /\ pc = "refreshed"
    /\ threshold # None
    /\ peaks # get_peaks(init_global_tables, local_tables, None)
    /\ global_tables # EmptyMap
    /\ \A p \in DOMAIN global_tables : global_tables[p].threshold_suggested # threshold[1]

(***************************************************************************)
(* The combinations of the statistics (Spec)                               *)
(***************************************************************************)
\* the records of the counted days, the days found in the range
CountedRecords == {i \in DOMAIN telemetry : date_of(RecordTime(i)) \in DaysInRange}

\* the values of dimension k + 1 (k = 1, 2) that occur on some counted day
CountedValues(k) == {telemetry[i][DIMENSIONS[k]] : i \in CountedRecords}

\* the combination p has no record on a counted day
Unrecorded(p) ==
    \A i \in CountedRecords : <<telemetry[i][DIMENSIONS[1]], telemetry[i][DIMENSIONS[2]]>> # p

\* the configured threshold floor of a dim0 value, 0 when none is configured
ConfiguredFloorOf(v) == IF v = "malicious" THEN 90 ELSE IF v = "benign" THEN 500 ELSE 0

\* C30: stats returns an entry for every combination of a dim0 value and a
\* dim1 value that each occur on some counted day, including combinations
\* that no record has; such a combination has all five statistics 0, and
\* get_global_tables turns it into a baseline entry whose threshold_suggested
\* is the configured threshold floor of its dim0 value.
C30_CrossProduct ==
    StatsRead =>
        /\ DOMAIN stats_ret = CountedValues(1) \X CountedValues(2)
        /\ DOMAIN global_tables = DOMAIN stats_ret
        /\ \A p \in DOMAIN stats_ret :
              Unrecorded(p) =>
                  /\ stats_ret[p].sub_count_avg = IntRat(0)
                  /\ stats_ret[p].sub_count_max = 0
                  /\ stats_ret[p].samp_count_avg = IntRat(0)
                  /\ stats_ret[p].samp_count_max = 0
                  /\ stats_ret[p].samp_sub_count_max = IntRat(0)
                  /\ global_tables[p].threshold_suggested = ConfiguredFloorOf(p[1])
                  /\ global_tables[p].sub_count_avg = 0
                  /\ global_tables[p].samp_sub_count_avg = 0

\* statistics with two combinations that no record has, one with a
\* configured floor and one without
C30_Witness ==
    /\ StatsRead
    /\ \E p, q \in DOMAIN stats_ret :
          /\ Unrecorded(p) /\ Unrecorded(q)
          /\ global_tables[p].threshold_suggested = 90
          /\ global_tables[q].threshold_suggested = 0
    /\ \E p \in DOMAIN stats_ret : ~Unrecorded(p)
====
